---- MODULE Spec2Model ----
(***************************************************************************)
(* The Smart Bin server (farhanlion/smart-rubbishbin): the Event Store     *)
(* (lastResult, history), the per-bin Time-Series Store (binSeries) with   *)
(* its append-only log, and the request and socket handlers that change    *)
(* them.  The repository holds five revisions of the server; the variable  *)
(* `build` says which one is running.                                      *)
(*                                                                         *)
(* Time is counted in hours: one unit is the 3600 * 1000 ms of the source. *)
(***************************************************************************)
EXTENDS Integers, Sequences, FiniteSets, TLC

(***************************************************************************)
(* Bounds of the model.                                                    *)
(***************************************************************************)
\* handler invocations explored in one behaviour of Spec
MaxReq == 3
\* the clock at start-up, in hours
Now0 == 1000
\* steps of the clock explored by Spec and by SpecSeries
MaxTicks == 1
MaxSeriesTicks == 2
\* stores beyond the capacity explored by the fill specification
FillExtra == 3

(***************************************************************************)
(* JavaScript values.  A value is a record tagged with its type; an object *)
(* is a record of its own keys, a missing key reads as undefined.          *)
(***************************************************************************)
U == [ty |-> "undefined"]
Null == [ty |-> "null"]
NaN == [ty |-> "NaN"]
Num(n) == [ty |-> "number", v |-> n]
Str(s) == [ty |-> "string", s |-> s]
ObjV(o) == [ty |-> "object", o |-> o]
\* the string Date.prototype.toISOString gives for the instant t
Iso(t) == [ty |-> "string", iso |-> t]

IsObject(v) == v.ty = "object"
Get(o, k) == IF k \in DOMAIN o THEN o[k] ELSE U
\* v.k for a value v that is known to be an object, undefined otherwise
Prop(v, k) == IF IsObject(v) THEN Get(v.o, k) ELSE U

Truthy(v) ==
  CASE v.ty = "undefined" -> FALSE
    [] v.ty = "null" -> FALSE
    [] v.ty = "NaN" -> FALSE
    [] v.ty = "number" -> v.v # 0
    [] v.ty = "string" -> v # Str("")
    [] OTHER -> TRUE

\* a || b
OrElse(a, b) == IF Truthy(a) THEN a ELSE b
\* a ?? b
Coalesce(a, b) == IF a.ty \in {"undefined", "null"} THEN b ELSE a

NumberIsFinite(v) == v.ty = "number"

(***************************************************************************)
(* Strings.  A string is a TLA+ string; the operators below are the        *)
(* String methods the source calls.                                        *)
(***************************************************************************)
Char(s, i) == SubSeq(s, i, i)
RECURSIVE TrimStart(_)
TrimStart(s) == IF Len(s) > 0 /\ Char(s, 1) = " " THEN TrimStart(SubSeq(s, 2, Len(s))) ELSE s
RECURSIVE TrimEnd(_)
TrimEnd(s) == IF Len(s) > 0 /\ Char(s, Len(s)) = " " THEN TrimEnd(SubSeq(s, 1, Len(s) - 1)) ELSE s
\* String.prototype.trim
Trim(s) == TrimEnd(TrimStart(s))

UpperCase == "ABCDEFGHIJKLMNOPQRSTUVWXYZ"
LowerCase == "abcdefghijklmnopqrstuvwxyz"
LowerMap == [c \in {Char(UpperCase, i) : i \in 1..Len(UpperCase)} |->
               Char(LowerCase, CHOOSE i \in 1..Len(UpperCase) : Char(UpperCase, i) = c)]
LowerChar(c) == IF c \in DOMAIN LowerMap THEN LowerMap[c] ELSE c
RECURSIVE ToLowerCase(_)
ToLowerCase(s) == IF s = "" THEN "" ELSE LowerChar(Char(s, 1)) \o ToLowerCase(SubSeq(s, 2, Len(s)))

\* String(v): the text of a value
ToStr(v) ==
  CASE v.ty = "string" -> IF "iso" \in DOMAIN v THEN "T" \o ToString(v.iso) ELSE v.s
    [] v.ty = "number" -> (IF "neg" \in DOMAIN v THEN "-" ELSE "")
                          \o (IF "frac" \in DOMAIN v THEN ToString(v.v) \o "." \o v.frac ELSE ToString(v.v))
    [] v.ty = "NaN" -> "NaN"
    [] v.ty = "Infinity" -> "Infinity"
    [] v.ty = "null" -> "null"
    [] v.ty = "undefined" -> "undefined"
    [] OTHER -> "[object Object]"

\* a variant of safeStr that does not trim: a blank string passes as a value
safeStrUntrimmed(v) ==
  IF v = Null \/ v = U THEN U
  ELSE IF Len(ToStr(v)) > 0 THEN Str(ToStr(v)) ELSE U

\* safeStr: undefined for null, undefined and blank text, the trimmed text otherwise
safeStr(v) ==
  IF v = Null \/ v = U THEN U
  ELSE LET s == Trim(ToStr(v)) IN IF Len(s) > 0 THEN Str(s) ELSE U

(***************************************************************************)
(* Number(text) for decimal literals: an optional sign, digits, an         *)
(* optional fraction, an optional exponent; the empty text is 0; anything  *)
(* else is NaN.  A non-integer is a number that also carries its fraction  *)
(* digits.  A literal of 1e309 or more is Infinity.                        *)
(***************************************************************************)
Infinity == [ty |-> "Infinity"]
\* typeof v === "number"
IsNumber(v) == v.ty \in {"number", "NaN", "Infinity"}
Digits == "0123456789"
DigitMap == [c \in {Char(Digits, i) : i \in 1..Len(Digits)} |->
               (CHOOSE i \in 1..Len(Digits) : Char(Digits, i) = c) - 1]
IsDigit(c) == c \in DOMAIN DigitMap
DigitVal(c) == DigitMap[c]
AllDigits(s) == \A i \in 1..Len(s) : IsDigit(Char(s, i))
RECURSIVE DigitsVal(_)
DigitsVal(s) == IF s = "" THEN 0 ELSE DigitsVal(SubSeq(s, 1, Len(s) - 1)) * 10 + DigitVal(Char(s, Len(s)))
RECURSIVE DropZeros(_)
DropZeros(s) == IF Len(s) > 0 /\ Char(s, Len(s)) = "0" THEN DropZeros(SubSeq(s, 1, Len(s) - 1)) ELSE s
RECURSIVE DropLeadingZeros(_)
DropLeadingZeros(s) == IF Len(s) > 0 /\ Char(s, 1) = "0" THEN DropLeadingZeros(SubSeq(s, 2, Len(s))) ELSE s
RECURSIVE Zeros(_)
Zeros(n) == IF n <= 0 THEN "" ELSE "0" \o Zeros(n - 1)
Dec(whole, frac) == IF frac = "" THEN Num(whole) ELSE [ty |-> "number", v |-> whole, frac |-> frac]
\* the digits w before and f after the decimal point; one is true of a literal with one point
MantissaParts(w, f, one) ==
  [ok |-> one /\ AllDigits(w) /\ AllDigits(f) /\ Len(w) + Len(f) > 0, w |-> w, f |-> f]
PointAt(dots) == CHOOSE i \in dots : TRUE
MantissaAt(s, dots) ==
  IF dots = {} THEN [ok |-> s # "" /\ AllDigits(s), w |-> s, f |-> ""]
  ELSE MantissaParts(SubSeq(s, 1, PointAt(dots) - 1), SubSeq(s, PointAt(dots) + 1, Len(s)),
                     Cardinality(dots) = 1)
\* the digits before and after the decimal point of a literal without exponent
Mantissa(s) == MantissaAt(s, {i \in 1..Len(s) : Char(s, i) = "."})
ExponentDigits(neg, ds) ==
  IF ds # "" /\ AllDigits(ds) THEN [ok |-> TRUE, x |-> IF neg THEN 0 - DigitsVal(ds) ELSE DigitsVal(ds)]
  ELSE [ok |-> FALSE, x |-> 0]
\* the digits of an exponent part: an optional sign and at least one digit
ExponentOf(s) ==
  IF Len(s) > 0 /\ Char(s, 1) \in {"+", "-"} THEN ExponentDigits(Char(s, 1) = "-", SubSeq(s, 2, Len(s)))
  ELSE ExponentDigits(FALSE, s)
\* the decimal whose digits are all, with the point after the first `point` of them
DecimalAt(all, point) ==
  Dec(DigitsVal(SubSeq(all, 1, point)), DropZeros(SubSeq(all, point + 1, Len(all))))
PadLeft(w, x) == IF 0 - x > Len(w) THEN (0 - x) - Len(w) ELSE 0
PadRight(f, x) == IF x > Len(f) THEN x - Len(f) ELSE 0
\* w.f times 10^x: the decimal point moved by x places
Scaled(w, f, x) ==
  IF Len(DropLeadingZeros(w)) > 0 /\ Len(DropLeadingZeros(w)) + x > 309 THEN Infinity
  ELSE DecimalAt(Zeros(PadLeft(w, x)) \o w \o f \o Zeros(PadRight(f, x)), PadLeft(w, x) + Len(w) + x)
Combined(m, x) == IF m.ok /\ x.ok THEN Scaled(m.w, m.f, x.x) ELSE NaN
ExponentAt(s, es) == IF es = {} THEN Len(s) + 1 ELSE CHOOSE i \in es : TRUE
UnsignedAt(s, es) ==
  IF s = "Infinity" THEN Infinity
  ELSE IF Cardinality(es) > 1 THEN NaN
  ELSE Combined(Mantissa(SubSeq(s, 1, ExponentAt(s, es) - 1)),
                IF es = {} THEN [ok |-> TRUE, x |-> 0]
                ELSE ExponentOf(SubSeq(s, ExponentAt(s, es) + 1, Len(s))))
Unsigned(s) == UnsignedAt(s, {i \in 1..Len(s) : Char(s, i) \in {"e", "E"}})
\* -n; a fraction below one keeps its sign in a field of its own
Negate(n) ==
  IF n.ty # "number" THEN n
  ELSE IF n.v = 0 /\ "frac" \in DOMAIN n THEN [ty |-> "number", v |-> 0, frac |-> n.frac, neg |-> TRUE]
  ELSE [n EXCEPT !.v = 0 - @]
WithSign(neg, n) == IF neg THEN Negate(n) ELSE n
Signed(s) ==
  IF s = "" THEN Num(0)
  ELSE WithSign(Char(s, 1) = "-", Unsigned(IF Char(s, 1) \in {"+", "-"} THEN SubSeq(s, 2, Len(s)) ELSE s))
NumberOf(text) == Signed(Trim(text))

\* the characters /[^0-9.+-Ee]/ does not match: the range + to E, and e
KeptChars == "+,-./0123456789:;<=>?@ABCDEe"
KeptSet == {Char(KeptChars, i) : i \in 1..Len(KeptChars)}
IsKept(c) == c \in KeptSet
RECURSIVE Strip(_)
Strip(s) ==
  IF s = "" THEN ""
  ELSE (IF IsKept(Char(s, 1)) THEN Char(s, 1) ELSE "") \o Strip(SubSeq(s, 2, Len(s)))

numOrNull(v) ==
  IF IsNumber(v) THEN v
  ELSE IF v.ty = "string"
       THEN LET n == NumberOf(Strip(ToStr(v))) IN IF NumberIsFinite(n) THEN n ELSE Null
  ELSE Null
isFiniteNum(n) == n.ty = "number"

(***************************************************************************)
(* The five revisions of the server kept in the repository.                *)
(***************************************************************************)
Rev1 == "part_000:1-52"
Rev2 == "part_000:54-245"
Rev3 == "server.js"
Rev4 == "server2.js"
Rev5 == "part_001"
Builds == {Rev1, Rev2, Rev3, Rev4, Rev5}
\* revisions whose storeAndBroadcast assigns an id, and that serve /acknowledge
IdBuilds == {Rev3, Rev4, Rev5}
\* revisions that keep binSeries and the log
SeriesBuilds == {Rev4, Rev5}
\* revisions with the socket handlers, /override and the normalizers
NormalizerBuilds == {Rev2, Rev3, Rev4, Rev5}

MAX_HISTORY == 200
\* 30 * 24 * 3600 * 1000 ms, in hours
RETENTION == 30 * 24

\* the value a throwing call leaves instead of a result (a TypeError)
Throw == [ty |-> "throw"]
NoKeys == [k \in {} |-> U]
Field(k, v) == k :> v
\* key k when cond holds
FieldIf(cond, k, v) == IF cond THEN k :> v ELSE NoKeys
\* key k unless v is undefined
Keyed(k, v) == FieldIf(v # U, k, v)

\* the first truthy value of a || chain, its last value when none is
RECURSIVE FirstTruthy(_)
FirstTruthy(vs) ==
  IF Len(vs) = 1 \/ Truthy(Head(vs)) THEN Head(vs) ELSE FirstTruthy(Tail(vs))

\* one compartment of normalizeSensors: src.ultrasonic ?? src.distance ?? src.dist, src.weight
Compartment(src) ==
  LET u == numOrNull(Coalesce(Coalesce(Prop(src, "ultrasonic"), Prop(src, "distance")), Prop(src, "dist")))
      w == numOrNull(Prop(src, "weight"))
  IN ObjV(FieldIf(isFiniteNum(u), "ultrasonic", u) @@ FieldIf(isFiniteNum(w), "weight", w))

normalizeSensors(raw) ==
  LET s == IF raw = U THEN ObjV(NoKeys) ELSE raw IN
  IF s = Null THEN Throw
  ELSE
    LET recycleSrc == FirstTruthy(<<Prop(s, "recycle"), Prop(s, "recyclable"), Prop(s, "blue"),
                                    Prop(s, "comp1"), Prop(s, "recyclable"), Prop(s, "recycle")>>)
        generalSrc == FirstTruthy(<<Prop(s, "general"), Prop(s, "non-recyclable"), Prop(s, "trash"),
                                    Prop(s, "black"), Prop(s, "comp2"), Prop(s, "nonrecycle")>>)
        hasR == Truthy(recycleSrc) /\ IsObject(recycleSrc)
        hasG == Truthy(generalSrc) /\ IsObject(generalSrc)
        uFlat == numOrNull(Coalesce(Coalesce(Prop(s, "ultrasonic"), Prop(s, "distance")), Prop(s, "dist")))
        wFlat == numOrNull(Prop(s, "weight"))
    IN IF hasR \/ hasG
       THEN ObjV(FieldIf(hasR, "recycle", Compartment(recycleSrc))
                 @@ FieldIf(hasG, "general", Compartment(generalSrc)))
       ELSE IF isFiniteNum(uFlat) \/ isFiniteNum(wFlat)
       THEN ObjV(Field("recycle", ObjV(FieldIf(isFiniteNum(uFlat), "ultrasonic", uFlat)
                                       @@ FieldIf(isFiniteNum(wFlat), "weight", wFlat))))
       ELSE ObjV(NoKeys)

\* Number(v) of a value
ToNumber(v) ==
  CASE IsNumber(v) -> v
    [] v.ty = "string" -> NumberOf(ToStr(v))
    [] v.ty = "null" -> Num(0)
    [] OTHER -> NaN

\* the recyclable tokens normalizeClassification accepts
RecyclableTokens(b) ==
  IF b = Rev5 THEN {"recyclable", "non-recyclable", "contaminated"}
  ELSE {"yes", "no", "contaminated"}

\* normalizeClassification(source, p) of revision b at time t
normalizeClassification(b, t, source, raw) ==
  LET p == IF raw = U THEN ObjV(NoKeys) ELSE raw IN
  IF p = Null \/ normalizeSensors(Prop(p, "sensors")) = Throw THEN Throw
  ELSE
    LET confidence == numOrNull(Prop(p, "confidence"))
        time_ms == numOrNull(Prop(p, "time_ms"))
        ov == Prop(p, "override")
        override == IF ov = Num(1) \/ ov = Str("1") THEN Num(1) ELSE OrElse(ToNumber(ov), Num(0))
        recyRaw == ToLowerCase(Trim(ToStr(Coalesce(Prop(p, "recyclable"), Str("")))))
    IN [source |-> Str(source),
        kind |-> Str("classification"),
        bin_id |-> safeStr(Prop(p, "bin_id")),
        label |-> safeStr(Prop(p, "label")),
        confidence |-> IF isFiniteNum(confidence) THEN confidence ELSE Null,
        time_ms |-> IF isFiniteNum(time_ms) THEN time_ms ELSE Null,
        timestamp |-> OrElse(Prop(p, "timestamp"), Iso(t)),
        recyclable |-> IF recyRaw \in RecyclableTokens(b) THEN Str(recyRaw) ELSE U,
        sensors |-> OrElse(normalizeSensors(Prop(p, "sensors")), U),
        override |-> override]

(***************************************************************************)
(* The state of the running server.                                        *)
(***************************************************************************)
VARIABLES
  build,       \* the revision that is running
  running,     \* FALSE once an uncaught exception has ended the process
  now,         \* Date.now(), in hours
  lastResult,  \* null or the entry stored last
  history,     \* the bounded buffer of entries, oldest first
  binSeries,   \* Map: bin id -> sequence of points {t, distance_cm}
  log,         \* the lines of data/bin_log.jsonl
  out,         \* what the last handler emitted on the sockets, in order
  req,         \* the last request or socket event: its handler and its payload
  resp,        \* the HTTP response of the last handler
  diskFull,    \* TRUE while fs.appendFileSync on the log throws
  boots,       \* restarts of the process so far (bounds the exploration)
  BIN_HISTORY, \* the cache of simulated histories: bin id -> what was generated, and when
  nreq,        \* handler invocations so far (bounds the exploration)
  pc,          \* the statement of storeAndBroadcast the call in progress is at, or idle
  replay       \* loadLog(): lines the stream has read, lines the loop has taken, stream ended

vars == <<build, running, now, lastResult, history, binSeries, log, out, req, resp, diskFull, boots,
          BIN_HISTORY, nreq, pc, replay>>

\* no call of storeAndBroadcast is in progress
Idle == [at |-> "idle"]
\* loadLog() has read the file of n lines to its end and has taken every line
Loaded(n, opened) == [rpos |-> n, pos |-> n, ended |-> TRUE, atOpen |-> opened]

\* the module-level stores as one value, as a handler sees and leaves them
\* threw: an exception is on its way out of the handler
Globals == [lastResult |-> lastResult, history |-> history, binSeries |-> binSeries,
            log |-> log, out |-> <<>>, diskFull |-> diskFull, threw |-> FALSE]

tsISO(t) == Iso(t)
\* new Date(v).getTime()
DateGetTime(v) ==
  CASE v.ty = "string" -> IF "iso" \in DOMAIN v THEN Num(v.iso) ELSE NaN
    [] v.ty = "number" -> v
    [] v.ty = "null" -> Num(0)
    [] OTHER -> NaN

\* JSON.stringify of an object: undefined-valued keys are left out, NaN is written as null
JsonStringify(o) ==
  [k \in {x \in DOMAIN o : o[x] # U} |-> IF o[k] \in {NaN, Infinity} THEN Null ELSE o[k]]

\* a < c for a value a and a finite number c: false when a is NaN
Less(a, c) == a.ty = "number" /\ a.v < c

\* a variant of the trim that shifts at most one point: if (...) in place of while (...)
TrimOnce(arr, cutoff) ==
  IF Len(arr) > 0 /\ Less(Head(arr).t, cutoff) THEN Tail(arr) ELSE arr

\* while (arr.length && arr[0].t < cutoff) arr.shift()
RECURSIVE TrimHead(_, _)
TrimHead(arr, cutoff) ==
  IF Len(arr) > 0 /\ Less(Head(arr).t, cutoff) THEN TrimHead(Tail(arr), cutoff) ELSE arr

SeriesOf(series, id) == IF id \in DOMAIN series THEN series[id] ELSE <<>>

\* a variant of appendLog that pushes the point before it writes the log
appendLogPushFirst(t, g, entry) ==
  LET id == Get(entry, "id")
      arr == Append(SeriesOf(g.binSeries, id),
                    [t |-> DateGetTime(Get(entry, "timestamp")), distance_cm |-> Get(entry, "distance_cm")])
      g1 == [g EXCEPT !.binSeries = Field(id, TrimHead(arr, t - RETENTION)) @@ g.binSeries]
  IN IF g.threw THEN g
     ELSE IF ~Truthy(id) \/ ~NumberIsFinite(Get(entry, "distance_cm"))
     THEN (IF g.diskFull THEN [g EXCEPT !.threw = TRUE] ELSE [g EXCEPT !.log = Append(@, JsonStringify(entry))])
     ELSE IF g.diskFull THEN [g1 EXCEPT !.threw = TRUE]
     ELSE [g1 EXCEPT !.log = Append(@, JsonStringify(entry))]

\* appendLog(entry) at time t; fs.appendFileSync throws when the disk is full, before
\* anything else is done
appendLog(t, g, entry) ==
  LET g1 == [g EXCEPT !.log = Append(@, JsonStringify(entry))]
      id == Get(entry, "id")
      distance_cm == Get(entry, "distance_cm")
  IN IF g.threw THEN g
     ELSE IF g.diskFull THEN [g EXCEPT !.threw = TRUE]
     ELSE IF ~Truthy(id) \/ ~NumberIsFinite(distance_cm) THEN g1
     ELSE LET arr == Append(SeriesOf(g.binSeries, id),
                            [t |-> DateGetTime(Get(entry, "timestamp")), distance_cm |-> distance_cm])
              cutoff == t - RETENTION
          IN [g1 EXCEPT !.binSeries = Field(id, TrimHead(arr, cutoff)) @@ g.binSeries]

(***************************************************************************)
(* Fill level.  A distance may be a fraction of a centimetre: a number     *)
(* value carries a denominator d when it is not an integer.                *)
(***************************************************************************)
Ratio(n, d) == [ty |-> "number", v |-> n, d |-> d]
Den(x) == IF "d" \in DOMAIN x THEN x.d ELSE 1
Min(a, b) == IF a <= b THEN a ELSE b
Max(a, b) == IF a >= b THEN a ELSE b
\* Math.round(n / d) for d > 0: the nearest integer, a half rounded up
Round(n, d) == (2 * n + d) \div (2 * d)

\* const BIN_HEIGHT_CM of the revision
BIN_HEIGHT_CM(b) == IF b = Rev5 THEN 75 ELSE 30

\* a variant of percentFull that does not clamp the distance
percentFullUnclamped(distance, height) ==
  IF ~NumberIsFinite(distance) THEN Null
  ELSE Num(Round(100 * (height * Den(distance) - distance.v), height * Den(distance)))

\* percentFull(distance, height) for a height > 0; the distance and the clamped d are
\* counted in units of 1 / Den(distance)
percentFull(distance, height) ==
  IF ~NumberIsFinite(distance) THEN Null
  ELSE LET hd == height * Den(distance)
           d == Max(0, Min(distance.v, hd))
       IN Num(Round(100 * (hd - d), hd))

\* a variant of colourFromPct that turns orange only above 70
colourAbove70(pct) ==
  IF pct.ty \in {"null", "undefined"} THEN "gray"
  ELSE IF pct.ty = "number" /\ pct.v >= 90 THEN "red"
  ELSE IF pct.ty = "number" /\ pct.v > 70 THEN "orange"
  ELSE "green"

\* pct == null matches null and undefined; every comparison with NaN is false
colourFromPct(pct) ==
  IF pct.ty \in {"null", "undefined"} THEN "gray"
  ELSE IF pct.ty = "number" /\ pct.v >= 90 THEN "red"
  ELSE IF pct.ty = "number" /\ pct.v >= 70 THEN "orange"
  ELSE "green"
stateFromPct(pct) ==
  IF pct.ty \in {"null", "undefined"} THEN "unknown"
  ELSE IF pct.ty = "number" /\ pct.v >= 90 THEN "full"
  ELSE IF pct.ty = "number" /\ pct.v >= 70 THEN "getting_full"
  ELSE "ok"

\* a variant of distanceFromPercent that takes the filled part for the distance
distanceOfFilledPart(pct, height) == Round(height * pct, 100)

\* Math.round(height * (1 - pct / 100)) for an integer pct, as the history, bins and
\* pickups routes compute a distance from a percentage
distanceFromPercent(pct, height) == Round(height * (100 - pct), 100)

(***************************************************************************)
(* Simulated history.  getOrGenerateHistory fills the cache of a bin with  *)
(* one point per hour whose percentages come from Math.random(); a seed    *)
(* stands for the random draws of one generation: the percentage it starts *)
(* at, the whole percent it gains per hour, and the hour at which the bin  *)
(* is emptied and the percentage it is reset to.  The cache keeps, for     *)
(* each bin, when its history was generated, for how many hours, and the   *)
(* seed: the array is a function of the three.                             *)
(***************************************************************************)
\* the first two of the nine bins of the source
PREGEN_BINS == <<"BIN-001", "BIN-002">>
HOURS_DEFAULT == 72
HOURS_7D == 24 * 7
Seed(start, rate, emptyAt, resetTo) ==
  [start |-> start, rate |-> rate, emptyAt |-> emptyAt, resetTo |-> resetTo]
\* flat at 10; emptied and full again for the last 5 of 168 hours; emptied and rising
\* to 72 after 168 hours; emptied and rising to 93 after 168 hours; emptied in the last
\* of 168 hours (emptyAt is -1 when the bin is never emptied).  Over 72 hours the last
\* four rise from 10 to 81
Seeds ==
  {Seed(10, 0, -1, 0), Seed(10, 1, 73, 10), Seed(10, 1, 100, 5), Seed(10, 1, 90, 16),
   Seed(10, 1, 167, 5)}
FirstSeeds == [i \in 1..Len(PREGEN_BINS) |-> Seed(10, 0, -1, 0)]

clamp(v, lo, hi) == Max(lo, Min(hi, v))
\* Math.round(pct) of the k-th generated hour, k = 0 for the oldest
GeneratedPercent(seed, k) ==
  IF seed.emptyAt >= 0 /\ seed.emptyAt <= k
  THEN clamp(seed.resetTo + seed.rate * (k - seed.emptyAt), 0, 100)
  ELSE clamp(seed.start + seed.rate * k, 0, 100)
\* the array the generation loop builds at time t for `hours` hours: i runs from
\* hours - 1 down to 0 and the point of i has the timestamp t - i
GeneratedHistory(c) ==
  [k \in 1..c.hours |->
     [timestamp |-> Iso(c.at - (c.hours - k)), percent_full |-> Num(GeneratedPercent(c.seed, k - 1))]]
Generation(t, hours, seed) == [at |-> t, hours |-> hours, seed |-> seed]
\* BIN_HISTORY[binId] || []
CachedHistory(cache, binId) ==
  IF binId \in DOMAIN cache THEN GeneratedHistory(cache[binId]) ELSE <<>>

\* pregenAll() of the revision that has it: every bin of PREGEN_BINS gets 7 days
pregenAll(b, t, seeds) ==
  IF b = Rev5
  THEN [id \in {PREGEN_BINS[i] : i \in 1..Len(PREGEN_BINS)} |->
          Generation(t, HOURS_7D, seeds[CHOOSE i \in 1..Len(PREGEN_BINS) : PREGEN_BINS[i] = id])]
  ELSE NoKeys

\* the cache is regenerated when it is empty or starts too late for the window: more than
\* 6 hours late in part_001, more than 5 minutes late in server2.js (timestamps are whole
\* hours here, so that is any hour late)
StartsTooLate(b, haveFrom, wantFrom) ==
  IF b = Rev5 THEN haveFrom - wantFrom > 6 ELSE haveFrom > wantFrom

\* !arr.length || (haveFrom != null && ...): the call generates a history
Generates(b, t, cache, binId, hours) ==
  \/ binId \notin DOMAIN cache
  \/ cache[binId].hours = 0
  \/ StartsTooLate(b, cache[binId].at - (cache[binId].hours - 1), t - hours)
\* the random draws a call can make: none when it generates nothing
DrawsOf(b, t, cache, binId, hours) ==
  IF Generates(b, t, cache, binId, hours) THEN Seeds ELSE {Seed(10, 0, -1, 0)}

\* a variant of getOrGenerateHistory that returns the whole cached array, without the filter
getWholeHistory(b, t, cache, binId, hours, seed) ==
  IF Generates(b, t, cache, binId, hours)
  THEN [arr |-> GeneratedHistory(Generation(t, hours, seed)),
        cache |-> Field(binId, Generation(t, hours, seed)) @@ cache]
  ELSE [arr |-> CachedHistory(cache, binId), cache |-> cache]

\* getOrGenerateHistory(binId, hours) at time t: the array returned and the cache left
getOrGenerateHistory(b, t, cache, binId, hours, seed) ==
  LET arr == CachedHistory(cache, binId)
      wantFrom == t - hours
  IN IF Generates(b, t, cache, binId, hours)
     THEN [arr |-> GeneratedHistory(Generation(t, hours, seed)),
           cache |-> Field(binId, Generation(t, hours, seed)) @@ cache]
     ELSE [arr |-> SelectSeq(arr, LAMBDA d : d.timestamp.iso >= wantFrom), cache |-> cache]

(***************************************************************************)
(* Forecasts.  Averages, slopes and hours are fractions: a number value    *)
(* n / d is kept in lowest terms, and the arithmetic is exact where the    *)
(* source computes in floating point.                                      *)
(***************************************************************************)
Abs(n) == IF n < 0 THEN 0 - n ELSE n
RECURSIVE Gcd(_, _)
Gcd(a, b) == IF b = 0 THEN a ELSE Gcd(b, a % b)
\* the number n / d for d > 0
Q(n, d) ==
  LET g == Gcd(Abs(n), d) IN IF d \div g = 1 THEN Num(n \div g) ELSE Ratio(n \div g, d \div g)
QAdd(a, b) == Q(a.v * Den(b) + b.v * Den(a), Den(a) * Den(b))
QSub(a, b) == Q(a.v * Den(b) - b.v * Den(a), Den(a) * Den(b))
QMul(a, b) == Q(a.v * b.v, Den(a) * Den(b))
\* a / b for b # 0
QDiv(a, b) == IF b.v > 0 THEN Q(a.v * Den(b), Den(a) * b.v) ELSE Q(0 - a.v * Den(b), Den(a) * (0 - b.v))
QLess(a, b) == a.v * Den(b) < b.v * Den(a)
QClamp(x, lo, hi) == IF QLess(x, Num(lo)) THEN Num(lo) ELSE IF QLess(Num(hi), x) THEN Num(hi) ELSE x
\* Math.round of a number value
QRound(x) == Round(x.v, Den(x))

\* new Date(Date.now() + hrs * 3600000).toISOString() for hrs >= 0 at time t: the
\* instant is cut to whole milliseconds
MsPerHour == 3600000
EtaIso(t, hrs) == [ty |-> "string", iso |-> t, ms |-> (hrs.v * MsPerHour) \div Den(hrs)]
\* new Date(iso) - new Date(other) for two instants counted from the same hour
EtaMs(e) == e.ms

\* Math.max(lo, Math.min(hi, Number(q ?? dflt))): NaN when the text is no number
ClampHours(q, lo, hi, dflt) ==
  LET n == ToNumber(Coalesce(q, Num(dflt))) IN
  IF n = Infinity THEN Num(hi) ELSE IF n.ty # "number" THEN NaN ELSE Num(clamp(n.v, lo, hi))

RECURSIVE SumPercent(_, _, _)
SumPercent(h, from, to) ==
  IF from > to THEN 0 ELSE h[to].percent_full.v + SumPercent(h, from, to - 1)
\* movingAvg[i - 1]: the mean of the window of 5 readings that ends at the i-th
windowSize == 5
\* a variant of MovingAvg that does not divide the sum by the length of the window
MovingSum(h, i) == Num(SumPercent(h, Max(1, i - windowSize + 1), i))
MovingAvg(h, i) ==
  LET start == Max(1, i - windowSize + 1) IN Q(SumPercent(h, start, i), i - start + 1)

\* the ETA block: null unless the slope is positive and the level below the threshold
EtaBelow(t, slope, level, threshold) ==
  IF slope # Null /\ slope.v > 0 /\ QLess(level, Num(threshold))
  THEN LET hrs == QDiv(QSub(Num(threshold), level), slope) IN
       IF hrs.v >= 0 THEN EtaIso(t, hrs) ELSE Null
  ELSE Null

\* the forecast loop of predict: each hour adds the step to current and clamps it to
\* 0..100; current starts within 0..100 and the step is the same every hour, so after
\* h hours it is the clamped value of start + h * step
ForecastPoints(t, start, step, hours) ==
  [h \in 1..hours |->
     [timeISO |-> Iso(t + h),
      percent_full |-> Num(QRound(QClamp(QAdd(start, QMul(Num(h), step)), 0, 100)))]]

\* the body GET /api/bins/:id/predict sends for the history hist
predictBody(b, t, binId, hours, hist) ==
  LET n == Len(hist)
      slope_per_hr == IF n >= 2 THEN QSub(MovingAvg(hist, n), MovingAvg(hist, n - 1)) ELSE Null
      lastPct == IF n >= 1 THEN MovingAvg(hist, n) ELSE Num(0)
      step == IF slope_per_hr = Null THEN Ratio(1, 2) ELSE slope_per_hr
      points == IF n = 0 \/ hours = NaN THEN <<>> ELSE ForecastPoints(t, lastPct, step, hours.v)
      shown == IF hours = NaN THEN Null ELSE hours
  IN [id |-> Str(binId), hours |-> shown, points |-> points,
      slope_per_hr |-> IF n = 0 THEN Null ELSE slope_per_hr,
      eta90_iso |-> IF n = 0 THEN Null ELSE EtaBelow(t, slope_per_hr, lastPct, 90)]
     @@ FieldIf(b = Rev5, "eta100_iso",
                IF n = 0 THEN Null ELSE EtaBelow(t, slope_per_hr, lastPct, 100))

\* the ETA block of pickups: the slope is positive; at or above the threshold the
\* hours are 0
EtaPickup(t, slope, level, threshold) ==
  LET hrs == IF QLess(level, Num(threshold)) THEN QDiv(QSub(Num(threshold), level), slope)
             ELSE Num(0)
  IN IF hrs.v >= 0 THEN EtaIso(t, hrs) ELSE Null

\* the item GET /api/pickups builds for one bin (postal codes are left out)
pickupItem(t, bin_id, h) ==
  LET n == Len(h)
      lastPct == IF n >= 1 THEN h[n].percent_full ELSE Num(0)
      lastMA == IF n >= 1 THEN MovingAvg(h, n) ELSE lastPct
      prevMA == IF n >= 2 THEN MovingAvg(h, n - 1) ELSE lastPct
      slope_per_hr == IF n >= 2 THEN QSub(lastMA, prevMA) ELSE Ratio(1, 2)
  IN [bin_id |-> Str(bin_id),
      current_percent |-> lastPct,
      current_distance_cm |-> Num(distanceFromPercent(lastPct.v, BIN_HEIGHT_CM(Rev5))),
      slope_per_hr |-> slope_per_hr,
      eta90_iso |-> IF slope_per_hr.v > 0 THEN EtaPickup(t, slope_per_hr, lastMA, 90) ELSE Null,
      eta100_iso |-> IF slope_per_hr.v > 0 THEN EtaPickup(t, slope_per_hr, lastMA, 100) ELSE Null,
      forecast_status |-> IF slope_per_hr.v <= 0 THEN "stalled" ELSE "ok"]

\* a variant of the sort that leaves the items as they are
KeepOrder(items) == items

\* items.sort((a, b) => new Date(a.eta100_iso) - new Date(b.eta100_iso)): the sort is
\* stable, an item goes behind those that are not later than it
RECURSIVE InsertByEta(_, _)
InsertByEta(sorted, x) ==
  IF sorted = <<>> THEN <<x>>
  ELSE IF EtaMs(Head(sorted).eta100_iso) <= EtaMs(x.eta100_iso)
       THEN <<Head(sorted)>> \o InsertByEta(Tail(sorted), x)
       ELSE <<x>> \o sorted
RECURSIVE SortByEta(_)
SortByEta(items) ==
  IF items = <<>> THEN <<>>
  ELSE InsertByEta(SortByEta(SubSeq(items, 1, Len(items) - 1)), items[Len(items)])

\* the first finite number among the candidates, null when there is none
RECURSIVE FirstFinite(_)
FirstFinite(vs) ==
  IF vs = <<>> THEN Null
  ELSE IF NumberIsFinite(Head(vs)) THEN Head(vs) ELSE FirstFinite(Tail(vs))

getDistanceFromSensors(s) ==
  IF ~Truthy(s) \/ ~IsObject(s) THEN Null
  ELSE LET r == Prop(s, "recycle")
           gn == Prop(s, "general")
       IN FirstFinite((IF Truthy(r) /\ IsObject(r) THEN <<Prop(r, "ultrasonic")>> ELSE <<>>)
                      \o (IF Truthy(gn) /\ IsObject(gn) THEN <<Prop(gn, "ultrasonic")>> ELSE <<>>)
                      \o <<Prop(s, "ultrasonic"), Prop(s, "distance"), Prop(s, "dist")>>)

\* the random part of makeId, Math.random().toString(36).slice(2, 8): one value stands for
\* it, so that two ids made at the same time are equal, which the code does not exclude,
\* and ids made at different times differ
RandomParts == {"k3x9qz"}
\* the time part is written in decimal where the source writes it in base 36
makeId(rnd, t) == rnd \o ToString(t)

\* if (!entry.id) entry.id = makeId(), in the revisions that have the line
ensureId(b, t, entry, rnd) ==
  IF b \in IdBuilds /\ ~Truthy(Get(entry, "id"))
  THEN Field("id", Str(makeId(rnd, t))) @@ entry
  ELSE entry

\* variants of pushHistory that the capacity and eviction properties must tell apart from it:
\* one never evicts, one drops the entry just pushed instead of the oldest
pushUnbounded(h, entry) == Append(h, entry)
pushDropNewest(h, entry) ==
  LET h1 == Append(h, entry) IN IF Len(h1) > MAX_HISTORY THEN SubSeq(h1, 1, MAX_HISTORY) ELSE h1

\* history.push(entry); if (history.length > MAX_HISTORY) history.shift()
pushHistory(h, entry) ==
  LET h1 == Append(h, entry) IN IF Len(h1) > MAX_HISTORY THEN Tail(h1) ELSE h1

Emit(event, to, data) == [event |-> event, to |-> to, data |-> data]

\* storeAndBroadcast(entry) of revision b at time t; it is not reached when the handler
\* has thrown before it
storeAndBroadcast(b, t, g, entry0, rnd) ==
  LET entry == ensureId(b, t, entry0, rnd)
      g1 == [g EXCEPT !.lastResult = entry,
                      !.history = pushHistory(@, entry),
                      !.out = Append(@, Emit("pi:update", "all", entry))]
      distance == getDistanceFromSensors(Get(entry, "sensors"))
  IN IF g.threw THEN g
     ELSE IF b \in SeriesBuilds /\ Get(entry, "kind") = Str("sensors")
        /\ Truthy(Get(entry, "bin_id")) /\ NumberIsFinite(distance)
     THEN appendLog(t, g1, [id |-> entry.bin_id, distance_cm |-> distance,
                            timestamp |-> OrElse(Get(entry, "timestamp"), tsISO(t))])
     ELSE g1

Init ==
  /\ build \in Builds
  /\ running = TRUE
  /\ now = Now0
  /\ lastResult = Null
  /\ history = <<>>
  /\ binSeries = NoKeys
  /\ log = <<>>
  /\ out = <<>>
  /\ req = [op |-> "none"]
  /\ resp = [sent |-> FALSE]
  /\ diskFull = FALSE
  /\ boots = 0
  /\ pc = Idle
  /\ replay = Loaded(Len(log), Len(log))
  /\ BIN_HISTORY = pregenAll(build, now, FirstSeeds)
  /\ nreq = 0

(***************************************************************************)
(* Handlers.  Each runs to completion: one action is one whole handler.    *)
(***************************************************************************)
Reply(status, body) == [sent |-> TRUE, status |-> status, body |-> body]
NoReply == [sent |-> FALSE]

Request(op, payload) == [op |-> op, payload |-> payload]

\* the handler of request q leaves the stores as g and answers r; an exception that
\* leaves a route is answered 500 by express, one that leaves a socket listener is
\* uncaught and ends the process
Finish(q, g, r) ==
  /\ req' = q
  /\ lastResult' = g.lastResult
  /\ history' = g.history
  /\ binSeries' = g.binSeries
  /\ log' = g.log
  /\ out' = g.out
  /\ resp' = IF g.threw /\ r.sent THEN Reply(500, [error |-> "Internal Server Error"]) ELSE r
  /\ running' = (running /\ ~(g.threw /\ ~r.sent))
  /\ nreq' = nreq + 1
  /\ UNCHANGED <<build, now, diskFull, boots, pc, replay, BIN_HISTORY>>

\* an exception escapes the socket listener of q: the process ends
Crash(q) ==
  /\ req' = q
  /\ running' = FALSE
  /\ out' = <<>>
  /\ resp' = NoReply
  /\ nreq' = nreq + 1
  /\ UNCHANGED <<build, now, lastResult, history, binSeries, log, diskFull, boots, pc, replay, BIN_HISTORY>>

CanHandle == running

\* the entry /update and pi:sensors build for a sensors payload
sensorsEntry(t, source, p) ==
  [source |-> Str(source),
   kind |-> Str("sensors"),
   bin_id |-> safeStr(Prop(p, "bin_id")),
   timestamp |-> OrElse(Prop(p, "timestamp"), tsISO(t)),
   sensors |-> normalizeSensors(OrElse(Prop(p, "sensors"), p))]

\* socket.on("pi:sensors", (payload = {}) => ...)
SioSensors(payload, rnd) ==
  /\ CanHandle
  /\ build \in NormalizerBuilds
  /\ LET p == IF payload = U THEN ObjV(NoKeys) ELSE payload IN
     IF p = Null THEN Crash(Request("pi:sensors", payload))
     ELSE Finish(Request("pi:sensors", payload),
                 storeAndBroadcast(build, now, Globals, sensorsEntry(now, "sio-sensors", p), rnd), NoReply)

\* socket.on("pi:vision", (payload = {}) => ...)
SioVision(payload, rnd) ==
  /\ CanHandle
  /\ build \in NormalizerBuilds
  /\ LET entry == normalizeClassification(build, now, "sio-vision", payload) IN
     IF entry = Throw THEN Crash(Request("pi:vision", payload))
     ELSE Finish(Request("pi:vision", payload), storeAndBroadcast(build, now, Globals, entry, rnd), NoReply)

\* io.on("connection"): the new socket is sent lastResult when there is one
Connect ==
  /\ running
  /\ out' = IF lastResult # Null THEN <<Emit("pi:update", "socket", lastResult)>> ELSE <<>>
  /\ req' = Request("connection", U)
  /\ resp' = NoReply
  /\ nreq' = nreq + 1
  /\ UNCHANGED <<build, running, now, lastResult, history, binSeries, log, diskFull, boots, pc, replay, BIN_HISTORY>>

\* POST /update of the first revision: a classification result, validated
updateRev1(t, g, body) ==
  LET label == Prop(body, "label")
      confidence == Prop(body, "confidence")
      entry == [label |-> label,
                confidence |-> confidence,
                time_ms |-> OrElse(ToNumber(Prop(body, "time_ms")), Null),
                timestamp |-> OrElse(Prop(body, "timestamp"), tsISO(t))]
  IN IF label.ty # "string" \/ ~IsNumber(confidence)
     THEN [g |-> g, r |-> Reply(400, [ok |-> FALSE, error |-> "Invalid payload"])]
     ELSE [g |-> [g EXCEPT !.lastResult = entry,
                           !.history = pushHistory(@, entry),
                           !.out = Append(@, Emit("pi:update", "all", entry))],
           r |-> Reply(200, [ok |-> TRUE])]

isClassification(b) == \E k \in {"label", "recyclable", "override"} : k \in DOMAIN b.o

\* app.post("/update")
PostUpdate(reqBody, rnd) ==
  /\ CanHandle
  /\ LET b == OrElse(reqBody, ObjV(NoKeys)) IN
     IF build = Rev1
     THEN Finish(Request("/update", reqBody), updateRev1(now, Globals, b).g, updateRev1(now, Globals, b).r)
     ELSE LET entry == IF isClassification(b)
                       THEN normalizeClassification(build, now, "http-update", b)
                       ELSE sensorsEntry(now, "http-update", b)
          IN IF entry = Throw
             THEN Finish(Request("/update", reqBody), Globals, Reply(500, [ok |-> FALSE, error |-> "TypeError"]))
             ELSE Finish(Request("/update", reqBody),
                         storeAndBroadcast(build, now, Globals, entry, rnd), Reply(200, [ok |-> TRUE]))

\* app.post("/override")
PostOverride(reqBody, rnd) ==
  /\ CanHandle
  /\ build \in NormalizerBuilds
  /\ LET body == OrElse(reqBody, ObjV(NoKeys))
         forced == ObjV([recyclable |-> Str("no"), override |-> Num(1),
                         timestamp |-> OrElse(Prop(body, "timestamp"), tsISO(now))] @@ body.o)
         entry == normalizeClassification(build, now, "web-override", forced)
         g1 == [Globals EXCEPT !.out = Append(@, Emit("pi:cmd", "pi",
                   [action |-> "override", payload |-> entry, ts |-> now]))]
     IN IF entry = Throw
        THEN Finish(Request("/override", reqBody), Globals, Reply(500, [ok |-> FALSE, error |-> "TypeError"]))
        ELSE Finish(Request("/override", reqBody),
                    storeAndBroadcast(build, now, g1, entry, rnd), Reply(200, [ok |-> TRUE]))

\* history.findIndex((e) => e && e.id === id); 0 when no entry has the id
findIndex(h, id) ==
  IF \E i \in 1..Len(h) : Get(h[i], "id") = id
  THEN CHOOSE i \in 1..Len(h) : Get(h[i], "id") = id /\ \A j \in 1..(i - 1) : Get(h[j], "id") # id
  ELSE 0

\* history.splice(idx, 1)
splice(h, idx) == SubSeq(h, 1, idx - 1) \o SubSeq(h, idx + 1, Len(h))

\* variants of removeById: one leaves lastResult pointing at the removed entry, one
\* splices without testing the index (history.splice(-1, 1) removes the last entry)
removeKeepingLast(g, id) ==
  LET idx == findIndex(g.history, id)
  IN [g EXCEPT !.history = IF idx # 0 THEN splice(@, idx) ELSE @]
removeUnchecked(g, id) ==
  LET idx == findIndex(g.history, id)
      h1 == IF idx # 0 THEN splice(g.history, idx) ELSE SubSeq(g.history, 1, Len(g.history) - 1)
      last == IF g.lastResult # Null /\ Get(g.lastResult, "id") = id
              THEN (IF Len(h1) > 0 THEN h1[Len(h1)] ELSE Null)
              ELSE g.lastResult
  IN [g EXCEPT !.history = h1, !.lastResult = last]

\* the part of /acknowledge that changes the stores
removeById(g, id) ==
  LET idx == findIndex(g.history, id)
      h1 == IF idx # 0 THEN splice(g.history, idx) ELSE g.history
      last == IF g.lastResult # Null /\ Get(g.lastResult, "id") = id
              THEN (IF Len(h1) > 0 THEN h1[Len(h1)] ELSE Null)
              ELSE g.lastResult
  IN [g EXCEPT !.history = h1, !.lastResult = last]

\* app.post("/acknowledge")
PostAcknowledge(reqBody) ==
  /\ CanHandle
  /\ build \in IdBuilds
  /\ LET body == OrElse(reqBody, ObjV(NoKeys))
         id == safeStr(Prop(body, "id"))
         payload == [id |-> id, bin_id |-> safeStr(Prop(body, "bin_id")),
                     timestamp |-> OrElse(Prop(body, "timestamp"), tsISO(now))]
         g1 == [Globals EXCEPT !.out = Append(@, Emit("pi:cmd", "pi",
                   [action |-> "acknowledge", payload |-> payload, ts |-> now]))]
     IN IF ~Truthy(id)
        THEN Finish(Request("/acknowledge", reqBody), Globals, Reply(400, [ok |-> FALSE, error |-> "Missing id"]))
        ELSE Finish(Request("/acknowledge", reqBody), removeById(g1, id), Reply(200, [ok |-> TRUE, removed |-> id]))

\* the bin the snapshot route reports (postal codes are left out)
snapshotBin(b, t, id, distance_cm) ==
  LET pct == percentFull(distance_cm, BIN_HEIGHT_CM(b)) IN
  [id |-> id,
   distance_cm |-> distance_cm,
   percent_full |-> pct,
   colour |-> colourFromPct(pct),
   state |-> stateFromPct(pct),
   last_updated |-> tsISO(t),
   bin_height_cm |-> BIN_HEIGHT_CM(b)]

\* app.post("/api/bins/snapshot")
PostSnapshot(reqBody, rnd) ==
  /\ CanHandle
  /\ build \in SeriesBuilds
  /\ LET body == OrElse(reqBody, ObjV(NoKeys))
         id == Prop(body, "id")
         distance_cm == Prop(body, "distance_cm")
         entry == [id |-> id, distance_cm |-> distance_cm, timestamp |-> tsISO(now)]
         snap == [source |-> Str("http-bins-snapshot"),
                  kind |-> Str("sensors"),
                  bin_id |-> id,
                  timestamp |-> entry.timestamp,
                  sensors |-> ObjV([recycle |-> ObjV([ultrasonic |-> distance_cm])])]
     IN IF ~Truthy(id) \/ ~NumberIsFinite(distance_cm)
        THEN Finish(Request("/api/bins/snapshot", reqBody), Globals,
                    Reply(400, [error |-> "Provide {id, distance_cm}. Optional: postalCode"]))
        ELSE Finish(Request("/api/bins/snapshot", reqBody),
                    storeAndBroadcast(build, now, appendLog(now, Globals, entry), snap, rnd),
                    Reply(200, [ok |-> TRUE, bin |-> snapshotBin(build, now, id, distance_cm)]))

\* app.get("/api/bins/:id/predict"); the seed is what Math.random() gives if the history
\* is generated
GetPredict(binId, hoursQ, seed) ==
  /\ CanHandle
  /\ build \in SeriesBuilds
  /\ LET hours == ClampHours(hoursQ, 1, 240, 72)
         got == getOrGenerateHistory(build, now, BIN_HISTORY, binId, HOURS_DEFAULT, seed)
     IN /\ BIN_HISTORY' = got.cache
        /\ resp' = Reply(200, predictBody(build, now, binId, hours, got.arr))
  /\ req' = Request("/api/bins/:id/predict", ObjV([id |-> Str(binId), hours |-> hoursQ]))
  /\ out' = <<>>
  /\ nreq' = nreq + 1
  /\ UNCHANGED <<build, running, now, lastResult, history, binSeries, log, diskFull, boots, pc, replay>>

\* getOrGenerateHistory(binId, NaN): the loop makes no point and no timestamp is >= NaN, so
\* the array is empty, and it is stored when nothing was
historyOfNoHours(t, cache, binId, seed) ==
  IF CachedHistory(cache, binId) = <<>>
  THEN [arr |-> <<>>, cache |-> Field(binId, Generation(t, 0, seed)) @@ cache]
  ELSE [arr |-> <<>>, cache |-> cache]
seriesPoint(b, d) ==
  [timeISO |-> d.timestamp,
   percent_full |-> d.percent_full,
   distance_cm |-> Num(distanceFromPercent(d.percent_full.v, BIN_HEIGHT_CM(b)))]

\* app.get("/api/bins/:id/history")
GetHistory(binId, hoursQ, seed) ==
  /\ CanHandle
  /\ build \in SeriesBuilds
  /\ LET hours == ClampHours(hoursQ, 1, 24 * 30, 72) IN
     \E data \in {IF hours = NaN THEN historyOfNoHours(now, BIN_HISTORY, binId, seed)
                  ELSE getOrGenerateHistory(build, now, BIN_HISTORY, binId, hours.v, seed)} :
        /\ BIN_HISTORY' = data.cache
        /\ resp' = Reply(200, [id |-> Str(binId),
                               hours |-> IF hours = NaN THEN Null ELSE hours,
                               series |-> [i \in 1..Len(data.arr) |-> seriesPoint(build, data.arr[i])]])
  /\ req' = Request("/api/bins/:id/history", ObjV([id |-> Str(binId), hours |-> hoursQ]))
  /\ out' = <<>>
  /\ nreq' = nreq + 1
  /\ UNCHANGED <<build, running, now, lastResult, history, binSeries, log, diskFull, boots, pc, replay>>

\* parseInt(v, 10): the integer the longest prefix of the text spells, NaN when there is none
RECURSIVE DigitPrefix(_)
DigitPrefix(s) ==
  IF Len(s) > 0 /\ IsDigit(Char(s, 1)) THEN Char(s, 1) \o DigitPrefix(SubSeq(s, 2, Len(s))) ELSE ""
parseInt(v) ==
  LET s == TrimStart(ToStr(v))
      signed == Len(s) > 0 /\ Char(s, 1) \in {"+", "-"}
      ds == DigitPrefix(IF signed THEN SubSeq(s, 2, Len(s)) ELSE s)
  IN IF ds = "" THEN NaN
     ELSE Num(IF signed /\ Char(s, 1) = "-" THEN 0 - DigitsVal(ds) ELSE DigitsVal(ds))
\* arr.slice(-n) for n > 0
SliceLast(arr, n) == SubSeq(arr, Max(1, Len(arr) - n + 1), Len(arr))
Reverse(arr) == [i \in 1..Len(arr) |-> arr[Len(arr) + 1 - i]]
NotNullish(v) == v \notin {U, Null}
isClassificationEntry(e) ==
  Get(e, "kind") = Str("classification") \/ NotNullish(Get(e, "label")) \/ NotNullish(Get(e, "recyclable"))
\* Math.max(1, Math.min(200, parseInt(req.query.limit, 10) || 20))
limitOf(q) == Max(1, Min(200, OrElse(parseInt(q), Num(20)).v))

\* app.get("/history/classifications")
GetClassifications(limitQ) ==
  /\ CanHandle
  /\ build \in NormalizerBuilds
  /\ req' = Request("/history/classifications", ObjV(Keyed("limit", limitQ)))
  /\ resp' = Reply(200, [items |-> Reverse(SliceLast(SelectSeq(history, isClassificationEntry), limitOf(limitQ)))])
  /\ out' = <<>>
  /\ nreq' = nreq + 1
  /\ UNCHANGED <<build, running, now, lastResult, history, binSeries, log, diskFull, boots, pc, replay, BIN_HISTORY>>

\* PREGEN_BINS.map(...) from the i-th bin on: the items in the order of the bins, and
\* the cache the calls of getOrGenerateHistory leave
RECURSIVE pickupItems(_, _, _, _, _)
pickupItems(b, t, cache, i, seeds) ==
  IF i > Len(PREGEN_BINS) THEN [items |-> <<>>, cache |-> cache]
  ELSE LET got == getOrGenerateHistory(b, t, cache, PREGEN_BINS[i], HOURS_DEFAULT, seeds[i])
           rest == pickupItems(b, t, got.cache, i + 1, seeds)
       IN [items |-> <<pickupItem(t, PREGEN_BINS[i], got.arr)>> \o rest.items, cache |-> rest.cache]

\* app.get("/api/pickups"), a route of part_001 only
GetPickups(hoursQ, seeds) ==
  /\ CanHandle
  /\ build = Rev5
  /\ LET horizonHours == ClampHours(hoursQ, 1, HOURS_7D, HOURS_7D)
         got == pickupItems(build, now, BIN_HISTORY, 1, seeds)
         items == SortByEta(SelectSeq(got.items, LAMBDA x : Truthy(x.eta100_iso)))
     IN /\ BIN_HISTORY' = got.cache
        /\ resp' = Reply(200, [items |-> items,
                               horizon_hours |-> IF horizonHours = NaN THEN Null ELSE horizonHours])
  /\ req' = Request("/api/pickups", ObjV([hours |-> hoursQ]))
  /\ out' = <<>>
  /\ nreq' = nreq + 1
  /\ UNCHANGED <<build, running, now, lastResult, history, binSeries, log, diskFull, boots, pc, replay>>

\* the clock advances by d hours
Tick(d) ==
  /\ running
  /\ now' = now + d
  /\ UNCHANGED <<build, running, lastResult, history, binSeries, log, out, req, resp, diskFull, boots, pc, replay, BIN_HISTORY, nreq>>

(***************************************************************************)
(* The inputs explored.                                                    *)
(***************************************************************************)
\* a timestamp a payload may carry: none, unparsable text, the ISO text of a long past instant
Timestamps == {U, Str("soon"), Iso(now - (RETENTION + 1))}
Reading(d) == ObjV([recycle |-> ObjV([ultrasonic |-> d])])
WithTs(o, ts) == ObjV(FieldIf(ts # U, "timestamp", ts) @@ o)

SensorPayloads ==
  {WithTs([bin_id |-> Str("BIN-001"), sensors |-> Reading(Num(5))], ts) : ts \in Timestamps}
  \cup {ObjV([bin_id |-> Str("BIN-001"), sensors |-> ObjV(NoKeys)]),
        ObjV([bin_id |-> Str(" BIN-002 "), ultrasonic |-> Str("12cm")])}

ClassBody == ObjV([label |-> Str("plastic"), confidence |-> Num(1), recyclable |-> Str(" Yes ")])
VisionPayload ==
  ObjV([bin_id |-> Str("BIN-001"), recyclable |-> Str("recyclable"), override |-> Num(5),
        timestamp |-> Str("soon")])

SensorBody == ObjV([bin_id |-> Str("BIN-001"), sensors |-> Reading(Num(20))])

OverrideBodies ==
  {U, ObjV([bin_id |-> Str("BIN-001"), recyclable |-> Str("yes"), override |-> Num(0)])}

\* the ids a caller may acknowledge: none, blank, one no entry has, and each stored id, padded
AckBodies ==
  {U, ObjV([id |-> Null]), ObjV([id |-> Str("  ")]), ObjV([id |-> Str(" nope ")])}
  \cup {ObjV([id |-> Str(" " \o ToStr(Get(history[i], "id")) \o " "), bin_id |-> Str("BIN-001")]) :
          i \in 1..Len(history)}

SnapshotBody == ObjV([id |-> Str("BIN-001"), distance_cm |-> Num(7)])
SnapshotBodies == {SnapshotBody, ObjV([id |-> Str("BIN-001")])}

\* the clock is observed every 20 days
TickSteps == {20 * 24}

(***************************************************************************)
(* Spec: the Event Store under every kind of request.                      *)
(***************************************************************************)
Next ==
  \/ \E rnd \in RandomParts : nreq < MaxReq /\ SioSensors(SensorBody, rnd)
  \/ \E rnd \in RandomParts : nreq < MaxReq /\ SioVision(VisionPayload, rnd)
  \/ \E b \in {U, ClassBody}, rnd \in RandomParts : nreq < MaxReq /\ PostUpdate(b, rnd)
  \/ \E b \in OverrideBodies, rnd \in RandomParts : nreq < MaxReq /\ PostOverride(b, rnd)
  \/ \E b \in AckBodies : nreq < MaxReq /\ PostAcknowledge(b)
  \/ nreq < MaxReq /\ Connect
  \/ \E d \in TickSteps : now + d <= Now0 + MaxTicks * d /\ Tick(d)

Spec == Init /\ [][Next]_vars

(***************************************************************************)
(* SpecSeries: the Time-Series Store under sensor readings and snapshots,  *)
(* with the clock running past the retention window.                       *)
(***************************************************************************)
NextSeries ==
  \/ \E p \in SensorPayloads, rnd \in RandomParts : nreq < MaxReq /\ SioSensors(p, rnd)
  \/ \E b \in {SensorBody, ClassBody}, rnd \in RandomParts : nreq < MaxReq /\ PostUpdate(b, rnd)
  \/ \E b \in SnapshotBodies, rnd \in RandomParts : nreq < MaxReq /\ PostSnapshot(b, rnd)
  \/ \E d \in TickSteps : now + d <= Now0 + MaxSeriesTicks * d /\ Tick(d)

\* only the revisions that keep binSeries are run
InitSeries == Init /\ build \in SeriesBuilds
SpecSeries == InitSeries /\ [][NextSeries]_vars

(***************************************************************************)
(* The fill specification: classification results are posted until the    *)
(* buffer is over its capacity, each with an older data timestamp than the *)
(* one before it; once the buffer is full, entries are also acknowledged.  *)
(***************************************************************************)
FillBody == ObjV([label |-> Str("plastic"), confidence |-> Num(1), timestamp |-> Iso(Now0 - nreq)])
FillRandom == "f" \o ToString(nreq)
FillAckBodies ==
  IF history = <<>> THEN {}
  ELSE {ObjV([id |-> Get(history[1], "id")]), ObjV([id |-> Get(history[Len(history)], "id")]),
        ObjV([id |-> Str("nope")])}

NextFill ==
  \/ nreq < MAX_HISTORY + FillExtra /\ PostUpdate(FillBody, FillRandom)
  \/ /\ nreq > MAX_HISTORY
     /\ nreq < MAX_HISTORY + FillExtra
     /\ \E b \in FillAckBodies : PostAcknowledge(b)

SpecFill == Init /\ [][NextFill]_vars

(***************************************************************************)
(* SpecLog: the log and the replay at start-up.  Readings are ingested,    *)
(* the disk fills and is freed, lines that are no readings get into the    *)
(* file, and the process is restarted.                                     *)
(***************************************************************************)
\* a line without text: if (!line.trim()) continue
IsBlankLine(l) == "blank" \in DOMAIN l
\* a line JSON.parse throws on
IsUnparsable(l) == "raw" \in DOMAIN l
\* row && row.id && Number.isFinite(row.distance_cm) && row.timestamp
IsReplayed(l) ==
  /\ ~IsBlankLine(l) /\ ~IsUnparsable(l)
  /\ Truthy(Get(l, "id")) /\ NumberIsFinite(Get(l, "distance_cm")) /\ Truthy(Get(l, "timestamp"))

\* the loop of loadLog from line pos of the file up to line last, as far as the file goes:
\* each row that passes is given to appendLog, which also writes it to the file again;
\* what appendLog throws is caught and the loop goes on
RECURSIVE loadLines(_, _, _, _)
loadLines(t, g, pos, last) ==
  IF pos > last \/ pos > Len(g.log) THEN g
  ELSE LET l == g.log[pos]
           g1 == IF IsReplayed(l) THEN [appendLog(t, g, l) EXCEPT !.threw = FALSE] ELSE g
       IN loadLines(t, g1, pos + 1, last)

\* loadLog() at time t on the stores g of a fresh process.  The stream reads the lines the
\* file had when it was opened; it races with the lines appendLog writes meanwhile and
\* may read `reread` of them as well
loadLog(t, g, reread) == loadLines(t, g, 1, Len(g.log) + reread)

\* the process is started again: module state is initialised and loadLog() runs
Restart(reread) ==
  /\ build \in SeriesBuilds
  /\ LET fresh == [lastResult |-> Null, history |-> <<>>, binSeries |-> NoKeys, log |-> log,
                   out |-> <<>>, diskFull |-> diskFull, threw |-> FALSE]
         g == loadLog(now, fresh, reread)
     IN /\ lastResult' = g.lastResult
        /\ history' = g.history
        /\ binSeries' = g.binSeries
        /\ log' = g.log
        /\ out' = g.out
  /\ running' = TRUE
  /\ req' = Request("restart", U)
  /\ resp' = NoReply
  /\ boots' = boots + 1
  /\ replay' = Loaded(Min(Len(log) + reread, Len(log')), Len(log))
  /\ BIN_HISTORY' = pregenAll(build, now, FirstSeeds)
  /\ UNCHANGED <<build, now, diskFull, nreq, pc>>

\* the disk fills up
DiskFills ==
  /\ ~diskFull
  /\ diskFull' = TRUE
  /\ UNCHANGED <<build, running, now, lastResult, history, binSeries, log, out, req, resp, boots, pc, replay, BIN_HISTORY, nreq>>

\* lines that are no readings: blank, cut short, the JSON null, and rows without an id,
\* without a finite distance_cm, without a timestamp
ForeignLines ==
  <<[blank |-> TRUE],
    [raw |-> "{\"id\":\"BIN-0"],
    [ty |-> "null"],
    [distance_cm |-> Num(5), timestamp |-> Iso(Now0)],
    [id |-> Str("BIN-001"), distance_cm |-> Null, timestamp |-> Iso(Now0)],
    [id |-> Str("BIN-001"), distance_cm |-> Num(5)]>>

LogPayloads ==
  {WithTs([bin_id |-> Str("BIN-001"), sensors |-> Reading(Num(5))], ts) :
     ts \in {U, Iso(now - (RETENTION + 1))}}

\* a classification result that carries the reading of its bin
ClassSensorsBody ==
  ObjV([bin_id |-> Str("BIN-001"), label |-> Str("plastic"), sensors |-> Reading(Num(5))])

\* bounds of SpecLog: handler invocations and restarts together, lines read again
MaxLogSteps == 3
MaxReread == 1

NextLog ==
  \/ \E p \in LogPayloads, rnd \in RandomParts : nreq + boots < MaxLogSteps /\ SioSensors(p, rnd)
  \/ \E rnd \in RandomParts : nreq + boots < MaxLogSteps /\ PostSnapshot(SnapshotBody, rnd)
  \/ \E rnd \in RandomParts : nreq + boots < MaxLogSteps /\ PostUpdate(ClassSensorsBody, rnd)
  \/ now = Now0 /\ Tick(RETENTION + 1)
  \/ \E k \in 0..MaxReread : nreq + boots < MaxLogSteps /\ Restart(k)
  \/ DiskFills

\* the first start finds the file empty, or holding lines that are no readings
InitLog ==
  /\ build \in SeriesBuilds
  /\ running = TRUE
  /\ now = Now0
  /\ lastResult = Null
  /\ history = <<>>
  /\ binSeries = NoKeys
  /\ log \in {<<>>, ForeignLines}
  /\ out = <<>>
  /\ req = [op |-> "none"]
  /\ resp = [sent |-> FALSE]
  /\ diskFull = FALSE
  /\ boots = 0
  /\ pc = Idle
  /\ replay = Loaded(Len(log), Len(log))
  /\ BIN_HISTORY = pregenAll(build, now, FirstSeeds)
  /\ nreq = 0
SpecLog == InitLog /\ [][NextLog]_vars

(***************************************************************************)
(* Properties of the Event Store.                                          *)
(***************************************************************************)
\* this step ran the handler op
Handled(op) == nreq' = nreq + 1 /\ req'.op = op
\* this step stored an entry: the handler ended with the broadcast of storeAndBroadcast
Stored ==
  /\ nreq' = nreq + 1
  /\ Len(out') > 0
  /\ out'[Len(out')].event = "pi:update"
  /\ out'[Len(out')].to = "all"
\* the last handler stored an entry
HasStored ==
  /\ Len(out) > 0
  /\ out[Len(out)].event = "pi:update"
  /\ out[Len(out)].to = "all"

\* C1: after any sequence of store and acknowledge operations the history
\* buffer holds at most MAX_HISTORY (200) entries.
C1_HistoryBounded == Len(history) <= MAX_HISTORY

\* the buffer is full after more stores than its capacity, with acknowledgements in between
C1_Witness ==
  /\ Len(history) = MAX_HISTORY
  /\ nreq > MAX_HISTORY + 1
  /\ HasStored

\* C2: a store on a full buffer evicts exactly the entry at the head, the
\* oldest by insertion order, whatever its data timestamp, and puts the new
\* entry at the tail; after MAX_HISTORY + 1 stores into an empty buffer the
\* buffer holds MAX_HISTORY entries, the first stored is gone and the others
\* are there in the order they were stored.
C2_StoreOnFull ==
  (Stored /\ Len(history) = MAX_HISTORY) =>
    /\ history' = Append(Tail(history), lastResult')
    /\ lastResult' = out'[Len(out')].data
C2_AfterOverfill ==
  nreq = MAX_HISTORY + 1 =>
    /\ Len(history) = MAX_HISTORY
    /\ \A i \in 1..Len(history) : Get(history[i], "timestamp") = Iso(Now0 - i)
C2_EvictsOldest == [][C2_StoreOnFull]_vars /\ []C2_AfterOverfill

\* MAX_HISTORY + 1 entries were stored: the head is the second stored and carries a later
\* data timestamp than the tail
C2_Witness ==
  /\ nreq = MAX_HISTORY + 1
  /\ HasStored
  /\ Len(history) = MAX_HISTORY
  /\ Get(history[1], "timestamp") = Iso(Now0 - 1)
  /\ Get(history[Len(history)], "timestamp") = Iso(Now0 - MAX_HISTORY)


\* the id an acknowledge request names: absent, null, or text
RawId(q) == IF q.payload = U THEN U ELSE Get(q.payload.o, "id")
IsBlankId(v) == v \in {U, Null} \/ (v.ty = "string" /\ \A i \in 1..Len(v.s) : Char(v.s, i) = " ")
\* the id without the white space around it
NamedId(q) == Str(Trim(RawId(q).s))
HasId(h, id) == \E i \in 1..Len(h) : Get(h[i], "id") = id
FirstWith(h, id) == CHOOSE i \in 1..Len(h) : Get(h[i], "id") = id /\ \A j \in 1..(i - 1) : Get(h[j], "id") # id
Without(h, i) == [k \in 1..(Len(h) - 1) |-> IF k < i THEN h[k] ELSE h[k + 1]]
AckSucceeded == req.op = "/acknowledge" /\ resp.sent /\ resp.status = 200
\* the ids makeId can give at time t
IdsAt(t) == {Str(makeId(r, t)) : r \in RandomParts}

\* C3: acknowledge(id) with an id that some history entry has removes exactly
\* one entry, the first in buffer order with that id, and leaves the others
\* in their order; if the removed entry was lastResult, lastResult becomes
\* the last entry of the remaining buffer, or null when the buffer is empty,
\* and otherwise lastResult is unchanged.
C3_AckPresent ==
  (Handled("/acknowledge") /\ ~IsBlankId(RawId(req')) /\ HasId(history, NamedId(req'))) =>
    LET i == FirstWith(history, NamedId(req')) IN
    /\ history' = Without(history, i)
    /\ lastResult' = IF history[i] = lastResult
                     THEN (IF history' = <<>> THEN Null ELSE history'[Len(history')])
                     ELSE lastResult
C3_AcknowledgeRemovesFirst == [][C3_AckPresent]_vars

\* the entry stored last, after the clock moved, has been acknowledged: it was lastResult,
\* and lastResult is now the tail of the entries stored before it
C3_Witness ==
  /\ AckSucceeded
  /\ now > Now0
  /\ resp.body.removed \in IdsAt(now)
  /\ history # <<>>
  /\ \A i \in 1..Len(history) : Get(history[i], "id") \in IdsAt(Now0)
  /\ lastResult = history[Len(history)]

\* C4: acknowledge(id) with a non-empty id that no history entry has succeeds,
\* reports removed = id and leaves history and lastResult unchanged, so that
\* repeating it any number of times leaves the state it left the first time.
C4_AckAbsent ==
  (Handled("/acknowledge") /\ ~IsBlankId(RawId(req')) /\ ~HasId(history, NamedId(req'))) =>
    /\ resp' = Reply(200, [ok |-> TRUE, removed |-> NamedId(req')])
    /\ history' = history
    /\ lastResult' = lastResult
    /\ ~HasId(history', NamedId(req'))
C4_AcknowledgeAbsentIsNoOp == [][C4_AckAbsent]_vars

\* an id no entry has was acknowledged while the buffer held entries
C4_Witness ==
  /\ AckSucceeded
  /\ resp.body.removed = Str("nope")
  /\ Len(history) = nreq - 1
  /\ history # <<>>
  /\ lastResult = history[Len(history)]

\* C5: acknowledge with a missing, null or blank id is answered 400 with
\* 'Missing id'; history and lastResult are unchanged and nothing is sent to
\* the devices.
C5_AckBlank ==
  (Handled("/acknowledge") /\ IsBlankId(RawId(req'))) =>
    /\ resp' = Reply(400, [ok |-> FALSE, error |-> "Missing id"])
    /\ history' = history
    /\ lastResult' = lastResult
    /\ \A i \in 1..Len(out') : out'[i].to # "pi"
C5_AcknowledgeNeedsId == [][C5_AckBlank]_vars

\* an acknowledge with a blank id was refused while the buffer held entries
C5_Witness ==
  /\ req = Request("/acknowledge", ObjV([id |-> Str("  ")]))
  /\ resp.sent
  /\ resp.status = 400
  /\ history # <<>>
  /\ out = <<>>

\* C6: every entry in the history buffer, and lastResult when it is set, has
\* a non-empty id.
HasNonEmptyId(e) == Get(e, "id").ty = "string" /\ Get(e, "id").s # ""
C6_EveryEntryHasId ==
  /\ \A i \in 1..Len(history) : HasNonEmptyId(history[i])
  /\ lastResult # Null => HasNonEmptyId(lastResult)

\* C7: for every override request the command sent to the devices has action
\* "override" and is sent before the entry is broadcast, and the entry stored
\* and broadcast has recyclable = "no" and override = 1.
C7_OverrideForced ==
  (req.op = "/override" /\ resp.sent /\ resp.status = 200) =>
    /\ Len(out) = 2
    /\ out[1].event = "pi:cmd" /\ out[1].to = "pi" /\ out[1].data.action = "override"
    /\ out[2].event = "pi:update" /\ out[2].to = "all" /\ out[2].data = lastResult
    /\ history # <<>> /\ history[Len(history)] = lastResult
    /\ Get(lastResult, "recyclable") = Str("no")
    /\ Get(lastResult, "override") = Num(1)

(***************************************************************************)
(* Properties of the Time-Series Store.                                    *)
(***************************************************************************)
\* a > c for two values: false when either is NaN
Greater(a, c) == a.ty = "number" /\ c.ty = "number" /\ a.v > c.v
\* the point is older than the retention window at time t
Expired(p, t) == Less(p.t, t - RETENTION)
\* how many points at the head of s are older than the retention window at time t
LeadingExpired(s, t) ==
  CHOOSE k \in 0..Len(s) :
    /\ \A i \in 1..k : Expired(s[i], t)
    /\ k < Len(s) => ~Expired(s[k + 1], t)
\* a line of the log whose reading appendLog also pushes on the series of its bin
IsAppendLine(l) ==
  /\ "id" \in DOMAIN l /\ Truthy(l.id)
  /\ "distance_cm" \in DOMAIN l /\ l.distance_cm.ty = "number"
PointOf(l) == [t |-> DateGetTime(Get(l, "timestamp")), distance_cm |-> l.distance_cm]
\* this step ran a handler that called appendLog once, for a reading it pushed
AppendedOnce == nreq' = nreq + 1 /\ Len(log') = Len(log) + 1 /\ IsAppendLine(log'[Len(log')])

\* C8: in every reachable state each bin's series is non-decreasing in t from
\* head to tail, whatever timestamps the payloads carried.
C8_SeriesMonotone ==
  \A id \in DOMAIN binSeries :
    \A i \in 1..(Len(binSeries[id]) - 1) : ~Greater(binSeries[id][i].t, binSeries[id][i + 1].t)

\* C9: right after any appendLog for a bin, that bin's series holds no point
\* older than 30 days relative to the current time.
C9_AfterAppend ==
  nreq' = nreq + 1 =>
    \A k \in (Len(log) + 1)..Len(log') :
      IsAppendLine(log'[k]) =>
        \A i \in 1..Len(binSeries'[log'[k].id]) : ~Expired(binSeries'[log'[k].id][i], now')
C9_NoExpiredAfterAppend == [][C9_AfterAppend]_vars

\* C10, as the specification states it: when a series begins with points
\* older than the retention window, the next append to that bin removes
\* exactly that expired prefix, keeps every later point in its order and
\* leaves the new point at the tail.
C10_PrefixThenNew ==
  AppendedOnce =>
    LET l == log'[Len(log')]
        old == SeriesOf(binSeries, l.id)
        k == LeadingExpired(old, now')
    IN k >= 1 => binSeries'[l.id] = SubSeq(old, k + 1, Len(old)) \o <<PointOf(l)>>
C10_RemovesExpiredPrefix == [][C10_PrefixThenNew]_vars

\* C10, amended: when a series begins with points older than the retention
\* window, the next append to that bin removes exactly that expired prefix,
\* keeps every later point in its order and leaves the new point at the tail,
\* unless every earlier point was expired and the new point is itself older
\* than the window: then the new point is removed too and the series is empty.
C10_PrefixThenNewUnlessExpired ==
  AppendedOnce =>
    LET l == log'[Len(log')]
        old == SeriesOf(binSeries, l.id)
        k == LeadingExpired(old, now')
    IN k >= 1 =>
         binSeries'[l.id] = IF k = Len(old) /\ Expired(PointOf(l), now')
                            THEN <<>>
                            ELSE SubSeq(old, k + 1, Len(old)) \o <<PointOf(l)>>
C10_RemovesExpiredPrefixAmended == [][C10_PrefixThenNewUnlessExpired]_vars

\* readings stamped with the time they arrived were appended to one bin, the clock moved
\* past the retention of the first, and the last append removed it and kept the later ones
C10_Witness ==
  \E id \in DOMAIN binSeries :
    LET s == binSeries[id] IN
    /\ req.op \in {"pi:sensors", "/update"}
    /\ Len(s) >= 2
    /\ Len(log) > Len(s)
    /\ \A k \in 1..Len(log) :
         /\ IsAppendLine(log[k]) /\ log[k].id = id
         /\ "iso" \in DOMAIN log[k].timestamp /\ log[k].timestamp.iso >= Now0
    /\ \A i \in 1..Len(s) : ~Expired(s[i], now)
    /\ s[Len(s)] = PointOf(log[Len(log)])
    /\ s[Len(s)].t = Num(now)

(***************************************************************************)
(* SpecForecast: predictions and the pickup schedule, asked for while the  *)
(* simulated histories are fresh and 71, 72 and 73 hours later, when they  *)
(* age out of the 72 hour window, and for a bin that is not pregenerated.  *)
(***************************************************************************)
MaxForecastReq == 1
ForecastBins == {PREGEN_BINS[i] : i \in 1..Len(PREGEN_BINS)} \cup {"BIN-X"}
HourQueries == {U, Str("2")}
NextForecast ==
  \/ \E id \in ForecastBins, q \in HourQueries :
       \E seed \in DrawsOf(build, now, BIN_HISTORY, id, HOURS_DEFAULT) :
          nreq < MaxForecastReq /\ GetPredict(id, q, seed)
  \/ \E q \in HourQueries : nreq < MaxForecastReq /\ GetPickups(q, FirstSeeds)
  \/ now = Now0 /\ Tick(HOURS_DEFAULT - 1)
  \/ now > Now0 /\ now <= Now0 + HOURS_DEFAULT /\ Tick(1)

\* the histories pregenerated at the start come from any of the seeds
InitForecast ==
  /\ build \in SeriesBuilds
  /\ running = TRUE
  /\ now = Now0
  /\ lastResult = Null
  /\ history = <<>>
  /\ binSeries = NoKeys
  /\ log = <<>>
  /\ out = <<>>
  /\ req = [op |-> "none"]
  /\ resp = [sent |-> FALSE]
  /\ diskFull = FALSE
  /\ boots = 0
  /\ pc = Idle
  /\ replay = Loaded(Len(log), Len(log))
  /\ \E seeds \in [1..Len(PREGEN_BINS) -> Seeds] : BIN_HISTORY = pregenAll(build, now, seeds)
  /\ nreq = 0
SpecForecast == InitForecast /\ [][NextForecast]_vars

(***************************************************************************)
(* SpecBins: snapshots of one bin at distances on both sides of every      *)
(* threshold, in any order.                                                *)
(***************************************************************************)
MaxBinReq == 2
BinDistances == {Num(0), Num(3), Num(5), Num(9), Num(10), Ratio(45, 2), Num(30), Num(80)}
NextBins ==
  \E d \in BinDistances, rnd \in RandomParts :
     nreq < MaxBinReq /\ PostSnapshot(ObjV([id |-> Str("BIN-001"), distance_cm |-> d]), rnd)
SpecBins == InitSeries /\ [][NextBins]_vars

(***************************************************************************)
(* SpecPercent: percentFull, the colour and the state, and the distance    *)
(* computed back from the percentage, applied to distances in quarters of  *)
(* a centimetre from below zero to above the height.                       *)
(***************************************************************************)
Heights == {1, 2, 30, 75, 100, 151}
Quarters(h) == {Ratio(n, 4) : n \in (0 - 4)..(4 * (h + 1))}
NoDistances == {Null, NaN, U, Str("5")}
\* pct / 100 in distanceFromPercent when pct is null: ToNumber(null) is 0
PctNumber(pct) == IF pct.ty = "number" THEN pct.v ELSE 0

\* the functions are applied once, to one distance and one height
Convert(d, h) ==
  /\ req.op = "none"
  /\ req' = [op |-> "percentFull", distance |-> d, height |-> h]
  /\ LET pct == percentFull(d, h) IN
     resp' = [sent |-> FALSE,
              percent_full |-> pct,
              colour |-> colourFromPct(pct),
              state |-> stateFromPct(pct),
              distance_cm |-> distanceFromPercent(PctNumber(pct), h)]
  /\ UNCHANGED <<build, running, now, lastResult, history, binSeries, log, out, diskFull, boots, pc, replay, BIN_HISTORY, nreq>>

NextPercent == \E h \in Heights : \E d \in Quarters(h) \cup NoDistances : Convert(d, h)
SpecPercent == Init /\ [][NextPercent]_vars

(***************************************************************************)
(* SpecNormalize: numOrNull, normalizeSensors and normalizeClassification  *)
(* applied once to a value a JSON payload can carry (1e999 parses to       *)
(* Infinity) or a caller can pass.                                         *)
(***************************************************************************)
\* what a reading key may hold: nothing, null, numbers, text without a number, Infinity
ReadingValues == {U, Null, Num(7), Num(12), Str("n/a"), Infinity}
NumberInputs ==
  ReadingValues \cup
  {Num(0), Num(0 - 4), Dec(0, "92"), NaN, ObjV(NoKeys), Str(""), Str("   "), Str("abc"), Str("none"),
   Str("12cm"), Str(" 7 "), Str("-3.50"), Str("+8"), Str("1e3"), Str("25E-1"), Str("1e999"), Str("1,5"),
   Str("A5"), Str("1.2.3"), Str("4-5"), Str("."), Str("5."), Str(".5"), Str("Infinity"), Str("NaN"),
   Str("12 kg"), Str("e5"), Str("3e"), Str("0042")}
\* a compartment object with up to three distance keys and a weight
CompartmentObjects ==
  {ObjV(Keyed("ultrasonic", u) @@ Keyed("distance", d) @@ Keyed("dist", x) @@ Keyed("weight", w)) :
     u \in ReadingValues, d \in {U, Null, Num(12), Str("n/a")}, x \in {U, Num(9)}, w \in {U, Num(3), Str("n/a")}}
FlatObjects == CompartmentObjects
RecycleAliases == {"recycle", "recyclable", "blue", "comp1"}
GeneralAliases == {"general", "non-recyclable", "trash", "black", "comp2", "nonrecycle"}
SomeCompartments ==
  {ObjV(NoKeys), ObjV([ultrasonic |-> Num(7)]), ObjV([ultrasonic |-> Str("n/a"), distance |-> Num(12)]),
   ObjV([dist |-> Num(9), weight |-> Num(3)]), Str("yes"), Null, Num(0)}
SensorInputs ==
  {U, Null, Str("abc"), Num(5)}
  \cup FlatObjects
  \cup {ObjV(Field("recycle", c)) : c \in CompartmentObjects}
  \cup {ObjV(Field(k, c) @@ f.o) : k \in RecycleAliases \cup GeneralAliases, c \in SomeCompartments,
                                   f \in {ObjV(NoKeys), ObjV([ultrasonic |-> Num(12), weight |-> Num(3)])}}
  \cup {ObjV(Field("recycle", c) @@ Field("general", g)) : c, g \in SomeCompartments}
  \cup {ObjV(Field("recycle", Str("yes")) @@ Field("blue", ObjV([ultrasonic |-> Num(7)])))}

RecyclableInputs ==
  {U, Null, Str(""), Str("yes"), Str(" Yes "), Str("NO"), Str("no"), Str("contaminated"),
   Str(" CONTAMINATED"), Str("recyclable"), Str("non-recyclable"), Str("maybe"), Str("yes please"),
   Num(1), ObjV(NoKeys)}
OverrideInputs ==
  {U, Null, Num(0), Num(1), Str("1"), Str("0"), Num(5), Num(0 - 1), Dec(0, "5"), Str("2"), Str("on"),
   Str(""), Infinity, ObjV(NoKeys)}
ClassificationInputs ==
  {U, Null, Str("abc"), Num(5)}
  \cup {ObjV(Keyed("recyclable", r) @@ Keyed("override", o) @@ Keyed("sensors", s) @@ Keyed("label", l)) :
          r \in RecyclableInputs, o \in OverrideInputs,
          s \in {U, Null, Str("abc"), Reading(Num(5))}, l \in {U, Str("plastic")}}

Applied(op, arg, result) ==
  /\ req.op = "none"
  /\ req' = [op |-> op, arg |-> arg]
  /\ resp' = [sent |-> FALSE, result |-> result]
  /\ UNCHANGED <<build, running, now, lastResult, history, binSeries, log, out, diskFull, boots, pc, replay, BIN_HISTORY, nreq>>

ApplyNumOrNull(v) == Applied("numOrNull", v, numOrNull(v))
ApplySensors(s) == Applied("normalizeSensors", s, normalizeSensors(s))
ApplyClassification(p) ==
  Applied("normalizeClassification", p, normalizeClassification(build, now, "sio-vision", p))

NextNormalize ==
  \/ \E v \in NumberInputs : ApplyNumOrNull(v)
  \/ \E s \in SensorInputs : ApplySensors(s)
  \/ \E p \in ClassificationInputs : ApplyClassification(p)
InitNormalize == Init /\ build \in NormalizerBuilds
SpecNormalize == InitNormalize /\ [][NextNormalize]_vars

(***************************************************************************)
(* SpecUpdate: POST /update with classification and sensor bodies.         *)
(***************************************************************************)
MaxUpdateReq == 2
PlasticBody == ObjV([label |-> Str("plastic"), recyclable |-> Str("yes"), confidence |-> Dec(0, "92")])
UpdateBodies ==
  {U, ObjV(NoKeys), PlasticBody, ClassBody, SensorBody,
   ObjV([label |-> Str("glass")]), ObjV([recyclable |-> Str("no")]), ObjV([override |-> Num(1)]),
   ObjV([override |-> Null, bin_id |-> Str("BIN-001")]), ObjV([confidence |-> Dec(0, "92")]),
   ObjV([bin_id |-> Str("BIN-002"), ultrasonic |-> Str("12cm")])}
NextUpdate == \E b \in UpdateBodies, rnd \in RandomParts : nreq < MaxUpdateReq /\ PostUpdate(b, rnd)
SpecUpdate == InitNormalize /\ [][NextUpdate]_vars

(***************************************************************************)
(* SpecHistory: the buffer filled through POST /update and read through    *)
(* GET /history/classifications, on server2.js.                            *)
(***************************************************************************)
MaxHistoryReq == 4
LimitQueries == {U, Str("0"), Str("1"), Str("2"), Str("abc"), Str("500"), Str("-3")}
HistoryBodies == {PlasticBody, SensorBody, ObjV([label |-> Str("glass")])}
NextHistory ==
  /\ nreq < MaxHistoryReq
  /\ \/ \E b \in HistoryBodies, rnd \in RandomParts : PostUpdate(b, rnd)
     \/ \E q \in LimitQueries : GetClassifications(q)
InitHistory == Init /\ build = Rev4
SpecHistory == InitHistory /\ [][NextHistory]_vars

(***************************************************************************)
(* SpecWindow: the history route read with several windows, before and     *)
(* after some hours pass.                                                  *)
(***************************************************************************)
MaxWindowReq == 2
WindowBins == {"BIN-001", "BIN-X"}
WindowQueries == {U, Str("2"), Str("175"), Str("abc")}
WindowSeeds == {Seed(10, 0, -1, 0), Seed(10, 1, 73, 10)}
\* the random draws of a call of the history route
WindowDraws(id, q) ==
  LET hours == ClampHours(q, 1, 24 * 30, 72) IN
  IF hours = NaN THEN {Seed(10, 0, -1, 0)}
  ELSE DrawsOf(build, now, BIN_HISTORY, id, hours.v) \cap WindowSeeds
NextWindow ==
  \/ \E id \in WindowBins, q \in WindowQueries : \E seed \in WindowDraws(id, q) :
       nreq < MaxWindowReq /\ GetHistory(id, q, seed)
  \/ now = Now0 /\ Tick(3)
SpecWindow == InitSeries /\ [][NextWindow]_vars

(***************************************************************************)
(* SpecSlope: the body of predict computed once for a history that rises   *)
(* by the same amount every hour, or stays level.                          *)
(***************************************************************************)
MaxRampLen == 8
RampStarts == {0, 10, 40}
RampSteps == 0..4
\* the history of n hourly points that ends at time t, starts at a and adds k per sample
Ramp(t, a, k, n) ==
  [i \in 1..n |-> [timestamp |-> Iso(t - (n - i)), percent_full |-> Num(a + k * (i - 1))]]
ApplyPredict(a, k, n) ==
  /\ req.op = "none"
  /\ req' = [op |-> "predict", start |-> a, step |-> k, length |-> n]
  /\ resp' = [sent |-> FALSE, result |-> predictBody(build, now, "BIN-001", Num(1), Ramp(now, a, k, n))]
  /\ UNCHANGED <<build, running, now, lastResult, history, binSeries, log, out, diskFull, boots, pc, replay, BIN_HISTORY, nreq>>
NextSlope == \E a \in RampStarts, k \in RampSteps, n \in 1..MaxRampLen : ApplyPredict(a, k, n)
SpecSlope == InitSeries /\ [][NextSlope]_vars

(***************************************************************************)
(* The stepwise specifications.  loadLog() is called without await: its    *)
(* loop takes one line per turn of the event loop and handlers run between *)
(* the turns.  A handler has no await: it runs to its end, the call of     *)
(* storeAndBroadcast in it included, before another turn starts.           *)
(***************************************************************************)
\* a turn of the event loop can start: the process runs and no call is in progress
CanTurn == running /\ pc = Idle

\* loadLog() has opened the file of n lines
Opened(n) == [rpos |-> 0, pos |-> 0, ended |-> FALSE, atOpen |-> n]

\* bound of the replay: lines the loop takes
MaxReplayLines == 4

\* fs.createReadStream: a read of the stream returns the lines the file holds beyond
\* those read before (the files are shorter than a chunk)
StreamReads ==
  /\ CanTurn
  /\ ~replay.ended
  /\ replay.rpos < Len(log)
  /\ replay' = [replay EXCEPT !.rpos = Len(log)]
  /\ UNCHANGED <<build, running, now, lastResult, history, binSeries, log, out, req, resp, diskFull,
                 boots, BIN_HISTORY, nreq, pc>>

\* a read returns nothing: the stream has reached the end of the file and ends
StreamEnds ==
  /\ CanTurn
  /\ ~replay.ended
  /\ replay.rpos = Len(log)
  /\ replay' = [replay EXCEPT !.ended = TRUE]
  /\ UNCHANGED <<build, running, now, lastResult, history, binSeries, log, out, req, resp, diskFull,
                 boots, BIN_HISTORY, nreq, pc>>

\* one turn of for await (const line of rl): the next line read is taken; a row that
\* passes is given to appendLog, and what appendLog throws is caught
ReplayLine ==
  /\ CanTurn
  /\ replay.pos < replay.rpos
  /\ replay.pos < MaxReplayLines
  /\ \E g \in {loadLines(now, Globals, replay.pos + 1, replay.pos + 1)} :
       /\ binSeries' = g.binSeries
       /\ log' = g.log
  /\ replay' = [replay EXCEPT !.pos = @ + 1]
  /\ UNCHANGED <<build, running, now, lastResult, history, out, req, resp, diskFull,
                 boots, BIN_HISTORY, nreq, pc>>

\* loadLog() has completed: the stream has ended and the loop has taken every line read
ReplayDone == replay.ended /\ replay.pos = replay.rpos

\* socket.on("pi:sensors"): the listener has built its entry and calls storeAndBroadcast
CallSensors(payload, rnd) ==
  /\ CanTurn
  /\ build \in SeriesBuilds
  /\ pc' = [at |-> "id", entry |-> sensorsEntry(now, "sio-sensors", payload), rnd |-> rnd]
  /\ req' = Request("pi:sensors", payload)
  /\ resp' = NoReply
  /\ out' = <<>>
  /\ nreq' = nreq + 1
  /\ UNCHANGED <<build, running, now, lastResult, history, binSeries, log, diskFull,
                 boots, BIN_HISTORY, replay>>

\* if (!entry.id) entry.id = makeId()
SetId ==
  /\ pc.at = "id"
  /\ pc' = [pc EXCEPT !.at = "last", !.entry = ensureId(build, now, @, pc.rnd)]
  /\ UNCHANGED <<build, running, now, lastResult, history, binSeries, log, out, req, resp, diskFull,
                 boots, BIN_HISTORY, nreq, replay>>

\* a variant of the call that broadcasts the entry before it is stored
EmitEarly ==
  /\ pc.at = "last"
  /\ out' = Append(out, Emit("pi:update", "all", pc.entry))
  /\ pc' = [pc EXCEPT !.at = "log"]
  /\ UNCHANGED <<build, running, now, lastResult, history, binSeries, log, req, resp, diskFull,
                 boots, BIN_HISTORY, nreq, replay>>

\* lastResult = entry
SetLast ==
  /\ pc.at = "last"
  /\ lastResult' = pc.entry
  /\ pc' = [pc EXCEPT !.at = "push"]
  /\ UNCHANGED <<build, running, now, history, binSeries, log, out, req, resp, diskFull,
                 boots, BIN_HISTORY, nreq, replay>>

\* history.push(entry)
Push ==
  /\ pc.at = "push"
  /\ history' = Append(history, pc.entry)
  /\ pc' = [pc EXCEPT !.at = "shift"]
  /\ UNCHANGED <<build, running, now, lastResult, binSeries, log, out, req, resp, diskFull,
                 boots, BIN_HISTORY, nreq, replay>>

\* if (history.length > MAX_HISTORY) history.shift()
Shift ==
  /\ pc.at = "shift"
  /\ history' = IF Len(history) > MAX_HISTORY THEN Tail(history) ELSE history
  /\ pc' = [pc EXCEPT !.at = "emit"]
  /\ UNCHANGED <<build, running, now, lastResult, binSeries, log, out, req, resp, diskFull,
                 boots, BIN_HISTORY, nreq, replay>>

\* io.emit("pi:update", entry)
EmitUpdate ==
  /\ pc.at = "emit"
  /\ out' = Append(out, Emit("pi:update", "all", pc.entry))
  /\ pc' = [pc EXCEPT !.at = "log"]
  /\ UNCHANGED <<build, running, now, lastResult, history, binSeries, log, req, resp, diskFull,
                 boots, BIN_HISTORY, nreq, replay>>

\* if (entry.kind === "sensors") { ... appendLog(...) }, the end of the call and of the
\* listener; what appendLog throws leaves the listener
LogReading ==
  /\ pc.at = "log"
  /\ LET distance == getDistanceFromSensors(Get(pc.entry, "sensors"))
         row == [id |-> pc.entry.bin_id, distance_cm |-> distance,
                 timestamp |-> OrElse(Get(pc.entry, "timestamp"), tsISO(now))]
     IN \E g \in {IF Get(pc.entry, "kind") = Str("sensors") /\ Truthy(Get(pc.entry, "bin_id"))
                     /\ NumberIsFinite(distance)
                  THEN appendLog(now, Globals, row) ELSE Globals} :
          /\ binSeries' = g.binSeries
          /\ log' = g.log
          /\ running' = (running /\ ~g.threw)
  /\ pc' = Idle
  /\ UNCHANGED <<build, now, lastResult, history, out, req, resp, diskFull,
                 boots, BIN_HISTORY, nreq, replay>>

\* a record of the log as appendLog writes it
LogRecord(id, d, t) == JsonStringify([id |-> Str(id), distance_cm |-> Num(d), timestamp |-> Iso(t)])

(***************************************************************************)
(* SpecSteps: readings arrive on the socket until the buffer is over its   *)
(* capacity, each call of storeAndBroadcast taken statement by statement,  *)
(* while the log of an earlier run is replayed and clients connect.        *)
(***************************************************************************)
\* bound of SpecSteps: events beyond the capacity of the buffer
StepExtra == 2

\* the readings differ in their timestamps; the last ones carry the id of their bin
StepPayload ==
  ObjV(FieldIf(nreq >= MAX_HISTORY - 1, "bin_id", Str("BIN-001"))
       @@ [sensors |-> Reading(Num(5)), timestamp |-> Iso(Now0 - nreq)])
StepRandom == "s" \o ToString(nreq)

NextSteps ==
  \/ nreq < MAX_HISTORY + StepExtra /\ CallSensors(StepPayload, StepRandom)
  \/ SetId
  \/ SetLast
  \/ Push
  \/ Shift
  \/ EmitUpdate
  \/ LogReading
  \/ nreq >= MAX_HISTORY /\ nreq < MAX_HISTORY + StepExtra /\ CanTurn /\ Connect
  \/ StreamReads
  \/ StreamEnds
  \/ ReplayLine

\* the process starts on the log of an earlier run and begins to replay it
InitSteps ==
  /\ build = Rev4
  /\ running = TRUE
  /\ now = Now0
  /\ lastResult = Null
  /\ history = <<>>
  /\ binSeries = NoKeys
  /\ log = <<LogRecord("BIN-001", 9, Now0 - 1)>>
  /\ out = <<>>
  /\ req = [op |-> "none"]
  /\ resp = [sent |-> FALSE]
  /\ diskFull = FALSE
  /\ boots = 0
  /\ BIN_HISTORY = pregenAll(build, now, FirstSeeds)
  /\ nreq = 0
  /\ pc = Idle
  /\ replay = Opened(Len(log))
SpecSteps == InitSteps /\ [][NextSteps]_vars

(***************************************************************************)
(* SpecCsv: the CSV export of the buffer.  Readings and classification     *)
(* results are ingested and GET /data.csv is asked for.                    *)
(***************************************************************************)
\* String(v).replace(/"/g, '""')
RECURSIVE DoubleQuotes(_)
DoubleQuotes(s) ==
  IF s = "" THEN ""
  ELSE (IF Char(s, 1) = "\"" THEN "\"\"" ELSE Char(s, 1)) \o DoubleQuotes(SubSeq(s, 2, Len(s)))

\* v => '"' + String(v).replace(/"/g, '""') + '"'
csvField(v) == "\"" \o DoubleQuotes(ToStr(v)) \o "\""

\* Array.prototype.join
RECURSIVE Join(_, _)
Join(xs, sep) ==
  IF xs = <<>> THEN ""
  ELSE IF Len(xs) = 1 THEN xs[1]
  ELSE xs[1] \o sep \o Join(Tail(xs), sep)

csvHeaders ==
  <<"source", "kind", "bin_id", "label", "confidence", "time_ms", "timestamp", "recyclable",
    "override", "id", "recycle_ultrasonic", "general_ultrasonic", "weight">>

\* the values of the row of entry e, before they are quoted
csvValues(e) ==
  LET s == OrElse(Get(e, "sensors"), ObjV(NoKeys))
      recycle == OrElse(Prop(s, "recycle"), ObjV(NoKeys))
      general == OrElse(Prop(s, "general"), ObjV(NoKeys))
  IN <<Get(e, "source"), Get(e, "kind"), Get(e, "bin_id"), Get(e, "label"), Get(e, "confidence"),
       Get(e, "time_ms"), Get(e, "timestamp"), Get(e, "recyclable"), Get(e, "override"),
       Get(e, "id"), Prop(recycle, "ultrasonic"), Prop(general, "ultrasonic"), Get(e, "weight")>>

\* the row of entry e: each value ?? "", quoted, joined by commas
csvRow(e) ==
  \* the values are bound once
  LET Row(vals) == Join([i \in 1..Len(vals) |-> csvField(Coalesce(vals[i], Str("")))], ",")
  IN Row(csvValues(e))

\* the text GET /data.csv sends for the buffer h
csvText(h) ==
  IF h = <<>> THEN "No data available\n"
  ELSE Join(<<Join(csvHeaders, ",")>> \o [i \in 1..Len(h) |-> csvRow(h[i])], "\n")

\* app.get("/data.csv")
GetCsv ==
  /\ CanHandle
  /\ build \in IdBuilds
  /\ req' = Request("/data.csv", U)
  /\ resp' = Reply(200, csvText(history))
  /\ out' = <<>>
  /\ nreq' = nreq + 1
  /\ UNCHANGED <<build, running, now, lastResult, history, binSeries, log, diskFull, boots, pc, replay, BIN_HISTORY>>

\* bound of SpecCsv: requests
MaxCsvReq == 3

\* readings of one and of both compartments, with and without weights, and without a bin
CsvPayloads ==
  {ObjV([bin_id |-> Str("BIN-001"),
         sensors |-> ObjV([recycle |-> ObjV([ultrasonic |-> Num(12), weight |-> Num(3)]),
                           general |-> ObjV([ultrasonic |-> Num(20)])])]),
   ObjV([bin_id |-> Str("BIN-002"), sensors |-> ObjV([general |-> ObjV([dist |-> Num(7)])])]),
   ObjV([ultrasonic |-> Num(0), weight |-> Num(4)])}
\* results whose label holds a quote and a comma, with and without readings
CsvBodies ==
  {ObjV([label |-> Str("6\" pipe, bent"), confidence |-> Num(1), recyclable |-> Str("yes")]),
   ObjV([label |-> Str("can"), bin_id |-> Str("BIN-001"), sensors |-> Reading(Num(5))])}

NextCsv ==
  /\ nreq < MaxCsvReq
  /\ \/ \E p \in CsvPayloads, rnd \in RandomParts : SioSensors(p, rnd)
     \/ \E b \in CsvBodies, rnd \in RandomParts : PostUpdate(b, rnd)
     \/ GetCsv
InitCsv == Init /\ build \in IdBuilds
SpecCsv == InitCsv /\ [][NextCsv]_vars

(***************************************************************************)
(* SpecReplay: the replay at start-up, line by line, while readings arrive *)
(* on the socket.  The process starts on the log an earlier run has left.  *)
(***************************************************************************)
\* bound of SpecReplay: readings that arrive
MaxReplayReq == 2

\* the logs an earlier run has left: none, one record, two records and a blank line
ReplayLogs ==
  {<<>>,
   <<LogRecord("BIN-001", 9, Now0 - 2)>>,
   <<LogRecord("BIN-001", 9, Now0 - 2), [blank |-> TRUE], LogRecord("BIN-001", 8, Now0 - 1)>>}

\* the readings that arrive differ in their distance
LivePayload == ObjV([bin_id |-> Str("BIN-001"), sensors |-> Reading(Num(5 - nreq))])

NextReplay ==
  \/ StreamReads
  \/ StreamEnds
  \/ ReplayLine
  \/ \E rnd \in RandomParts : nreq < MaxReplayReq /\ SioSensors(LivePayload, rnd)

InitReplay ==
  /\ build \in SeriesBuilds
  /\ running = TRUE
  /\ now = Now0
  /\ lastResult = Null
  /\ history = <<>>
  /\ binSeries = NoKeys
  /\ log \in ReplayLogs
  /\ out = <<>>
  /\ req = [op |-> "none"]
  /\ resp = [sent |-> FALSE]
  /\ diskFull = FALSE
  /\ boots = 0
  /\ BIN_HISTORY = pregenAll(build, now, FirstSeeds)
  /\ nreq = 0
  /\ pc = Idle
  /\ replay = Opened(Len(log))
SpecReplay == InitReplay /\ [][NextReplay]_vars

(***************************************************************************)
(* SpecTrend: the trend of one history as the predict route and as the     *)
(* pickup route compute it.  The histories rise by a constant per sample   *)
(* up to 100 and hold none, one or more points.                            *)
(***************************************************************************)
MaxTrendLen == 7
TrendStarts == {0, 10, 40, 85, 96}
TrendSteps == 0..2
\* the history of n hourly points that ends at time t, starts at a and adds k per
\* sample until it is at 100
Climb(t, a, k, n) ==
  [i \in 1..n |-> [timestamp |-> Iso(t - (n - i)), percent_full |-> Num(Min(100, a + k * (i - 1)))]]
ApplyTrend(a, k, n) ==
  /\ req.op = "none"
  /\ req' = [op |-> "trend", start |-> a, step |-> k, length |-> n]
  /\ \E h \in {Climb(now, a, k, n)} :
       resp' = [sent |-> FALSE,
                predict |-> predictBody(build, now, "BIN-001", Num(HOURS_DEFAULT), h),
                pickup |-> pickupItem(now, "BIN-001", h)]
  /\ UNCHANGED <<build, running, now, lastResult, history, binSeries, log, out, diskFull, boots, pc, replay, BIN_HISTORY, nreq>>
NextTrend == \E a \in TrendStarts, k \in TrendSteps, n \in 0..MaxTrendLen : ApplyTrend(a, k, n)
\* the pickup route exists in part_001 only
InitTrend == Init /\ build = Rev5
SpecTrend == InitTrend /\ [][NextTrend]_vars

(***************************************************************************)
(* Properties of the log.                                                  *)
(***************************************************************************)
\* s is what is left of t after points were removed at its head
IsSuffixOf(s, t) == Len(s) <= Len(t) /\ s = SubSeq(t, Len(t) - Len(s) + 1, Len(t))

\* C11: each accepted reading (a sensor event with a bin id and a finite
\* distance, or a snapshot ingest) is appended to the log as exactly one
\* record and adds exactly one point to the series of its bin.
C11_AcceptedReading ==
  (nreq' = nreq + 1 /\ Len(log') > Len(log)) =>
    LET l == log'[Len(log')] IN
    /\ Len(log') = Len(log) + 1
    /\ IsAppendLine(l)
    /\ IsSuffixOf(binSeries'[l.id], Append(SeriesOf(binSeries, l.id), PointOf(l)))
C11_OneRecordOnePoint == [][C11_AcceptedReading]_vars

\* the log holds a record of the point p of bin id
HasRecord(id, p) ==
  \E i \in 1..Len(log) : IsAppendLine(log[i]) /\ log[i].id = id /\ PointOf(log[i]) = p
EveryPointLogged ==
  \A id \in DOMAIN binSeries : \A i \in 1..Len(binSeries[id]) : HasRecord(id, binSeries[id][i])
\* a handler ran while the log could not be written
FailedWrite == diskFull /\ nreq' = nreq + 1
\* C12: the log write precedes the in-memory update: in every reachable
\* state every point of every series has a matching record in the log, and
\* a handler whose log write fails leaves the series (and the log) unchanged.
C12_LogBeforeSeries ==
  /\ []EveryPointLogged
  /\ [][FailedWrite => (binSeries' = binSeries /\ log' = log)]_vars
\* a snapshot was refused because the log could not be written, while a
\* series already held a point
C12_Witness ==
  /\ diskFull /\ req.op = "/api/bins/snapshot" /\ resp.sent /\ resp.status = 500
  /\ \E id \in DOMAIN binSeries : Len(binSeries[id]) > 0

\* the points of s that the trim at time t keeps
WithinRetention(s, t) == TrimHead(s, t - RETENTION)
\* this step started the process again and replayed the log
Replayed == boots' = boots + 1
\* C13: after a restart, replaying the log rebuilds for every bin the series
\* the previous run held (same points, same order, limited to the retention
\* window), and lines that are no valid readings are skipped.
C13_SameSeries ==
  Replayed =>
    /\ \A id \in DOMAIN binSeries :
         SeriesOf(binSeries', id) = WithinRetention(binSeries[id], now)
    /\ \A id \in DOMAIN binSeries' : id \in DOMAIN binSeries
C13_ReplayRebuildsSeries == [][C13_SameSeries]_vars

\* the entry carries a bin id and a finite distance reading
CarriesReading(e) ==
  Truthy(Get(e, "bin_id")) /\ NumberIsFinite(getDistanceFromSensors(Get(e, "sensors")))
\* this step wrote a record of the reading of entry e to the log, as appendLog does
\* when it pushes the point
LoggedReadingOf(e) ==
  /\ Len(log') > Len(log)
  /\ LET l == log'[Len(log')] IN
     /\ IsAppendLine(l)
     /\ l.id = Get(e, "bin_id")
     /\ l.distance_cm = getDistanceFromSensors(Get(e, "sensors"))
     /\ Len(SeriesOf(binSeries', l.id)) > 0 =>
          binSeries'[l.id][Len(binSeries'[l.id])] = PointOf(l)
\* C14: every ingested event is appended to the Event Store, and every
\* ingested event that carries a finite distance reading, sensor or
\* classification alike, also adds a point to the Time-Series Store.
C14_Ingest ==
  (Stored /\ ~diskFull) =>
    /\ Len(history') > 0 /\ history'[Len(history')] = lastResult'
    /\ CarriesReading(lastResult') => LoggedReadingOf(lastResult')
C14_EveryReadingAddsPoint == [][C14_Ingest]_vars

(***************************************************************************)
(* Properties of the fill level.                                           *)
(***************************************************************************)
\* the state and the colour the thresholds give for a percentage
StateOfPercent(pct) ==
  IF pct = Null THEN "unknown"
  ELSE IF pct.v < 70 THEN "ok"
  ELSE IF pct.v <= 89 THEN "getting_full"
  ELSE "full"
ColourOfPercent(pct) ==
  IF pct = Null THEN "gray"
  ELSE IF pct.v < 70 THEN "green"
  ELSE IF pct.v <= 89 THEN "orange"
  ELSE "red"
\* this step answered a snapshot with the bin it reports
Reported == Handled("/api/bins/snapshot") /\ resp'.sent /\ resp'.status = 200
\* the distance of the reading stored as entry e
ReadingOf(e) == e.sensors.o.recycle.o.ultrasonic
\* C18: the state and the colour reported for a bin are a function of the
\* percentage of the latest reading only: null gives unknown/gray, below 70
\* ok/green, 70 to 89 getting_full/orange, 90 and above full/red, whatever
\* was reported before; distance 5 with height 30 gives 83, orange,
\* getting_full.
C18_ReportedState ==
  /\ stateFromPct(Null) = "unknown" /\ colourFromPct(Null) = "gray"
  /\ percentFull(Num(5), 30) = Num(83)
  /\ Reported =>
       LET bin == resp'.body.bin IN
       /\ bin.percent_full = percentFull(bin.distance_cm, bin.bin_height_cm)
       /\ bin.state = StateOfPercent(bin.percent_full)
       /\ bin.colour = ColourOfPercent(bin.percent_full)
       /\ (bin.distance_cm = Num(5) /\ bin.bin_height_cm = 30) =>
            (bin.percent_full = Num(83) /\ bin.colour = "orange" /\ bin.state = "getting_full")
C18_StateFromLatestPercent == [][C18_ReportedState]_vars
\* a bin reported full by one snapshot is reported at exactly 70 percent, orange and
\* getting_full, by the next
C18_Witness ==
  /\ req.op = "/api/bins/snapshot" /\ resp.sent /\ resp.status = 200
  /\ resp.body.bin.percent_full = Num(70)
  /\ resp.body.bin.colour = "orange" /\ resp.body.bin.state = "getting_full"
  /\ Len(history) = 2
  /\ stateFromPct(percentFull(ReadingOf(history[1]), BIN_HEIGHT_CM(build))) = "full"

\* the functions were applied to a finite distance that is not negative
Converted == req.op = "percentFull" /\ NumberIsFinite(req.distance) /\ req.distance.v >= 0
\* C19: for every height > 0 and every finite distance >= 0 percentFull is
\* an integer in [0,100], and it does not increase when the distance grows.
C19_PercentInRangeAndMonotone ==
  Converted =>
    /\ resp.percent_full.ty = "number"
    /\ resp.percent_full.v \in 0..100
    /\ \A d2 \in Quarters(req.height) :
         d2.v >= req.distance.v => percentFull(d2, req.height).v <= resp.percent_full.v
\* a distance above the height is clamped to the height and gives 0 percent
C19_Witness ==
  /\ Converted /\ req.height = 30 /\ req.distance = Ratio(124, 4)
  /\ resp.percent_full = Num(0)

\* the distance computed back from the percentage, less clamp(d, 0, h), in quarters
RoundTripError ==
  LET back == 4 * resp.distance_cm
      d == Max(0, Min(req.distance.v, 4 * req.height))
  IN IF back >= d THEN back - d ELSE d - back
WasConverted == req.op = "percentFull" /\ NumberIsFinite(req.distance)
\* C20 as stated: for every distance d and height h, the distance computed
\* back from percentFull(d, h) differs from clamp(d, 0, h) by at most one
\* unit.
C20_RoundTrip == WasConverted => RoundTripError <= 4
\* C20 amended: for every finite distance d and every height h from 1 to
\* 100, the distance computed back from percentFull(d, h) differs from
\* clamp(d, 0, h) by at most one unit.
C20_RoundTripUpTo100 == (WasConverted /\ req.height <= 100) => RoundTripError <= 4
\* at height 75 a distance comes back three quarters of a unit off
C20_Witness == WasConverted /\ req.height = 75 /\ RoundTripError = 3

(***************************************************************************)
(* Properties of the forecasts.                                            *)
(***************************************************************************)
Answered(op) == req.op = op /\ resp.sent /\ resp.status = 200
\* the rule of the ETA for a slope and the ETA reported with it: none unless the slope
\* is positive, and strictly after now when there is one
EtaRule(slope, eta) ==
  /\ (slope = Null \/ slope.v <= 0) => eta = Null
  /\ eta # Null => EtaMs(eta) > 0
\* the rule of the ETA to a threshold for an item that reports its current level
EtaRuleAt(item, eta, threshold) ==
  /\ EtaRule(item.slope_per_hr, eta)
  /\ item.current_percent.v >= threshold => eta = Null
  /\ (item.slope_per_hr.v > 0 /\ item.current_percent.v < threshold) => eta # Null
\* C15: in every forecast path the ETA to a threshold T is null when the
\* slope is <= 0 and null when the current level is >= T; when the slope is
\* > 0 and the level below T it is a strictly positive, finite number of
\* hours after now, never zero or negative.
C15_EtaRule ==
  /\ Answered("/api/bins/:id/predict") =>
       /\ EtaRule(resp.body.slope_per_hr, resp.body.eta90_iso)
       /\ "eta100_iso" \in DOMAIN resp.body =>
            EtaRule(resp.body.slope_per_hr, resp.body.eta100_iso)
  /\ Answered("/api/pickups") =>
       \A i \in 1..Len(resp.body.items) :
          /\ EtaRuleAt(resp.body.items[i], resp.body.items[i].eta90_iso, 90)
          /\ EtaRuleAt(resp.body.items[i], resp.body.items[i].eta100_iso, 100)

\* the history a request reads for the bin when the cache holds one that is not
\* generated anew: the cached points of the last 72 hours
WindowOf(binId) ==
  getOrGenerateHistory(build, now, BIN_HISTORY, binId, HOURS_DEFAULT, Seed(10, 0, -1, 0)).arr
Reads(binId) == ~Generates(build, now, BIN_HISTORY, binId, HOURS_DEFAULT)
PregenBin(i) == PREGEN_BINS[i]
\* the ETA to full the schedule computes for the bin from the history it reads
EtaToFull(binId) == pickupItem(now, binId, WindowOf(binId)).eta100_iso
\* this step answered the pickup schedule
Ranked == Handled("/api/pickups") /\ resp'.sent /\ resp'.status = 200
Ascending(items) ==
  \A i \in 1..Len(items), j \in 1..Len(items) :
     i < j => EtaMs(items[i].eta100_iso) <= EtaMs(items[j].eta100_iso)
\* the places of the bin in the ranking
PlacesOf(items, binId) == {k \in 1..Len(items) : items[k].bin_id = Str(binId)}
\* C16: the pickup ranking contains exactly the bins that have a defined
\* ETA-to-full, sorted ascending by that ETA; a bin without a defined
\* ETA-to-full never appears in the list.
C16_Ranking ==
  Ranked =>
    LET items == resp'.body.items IN
    /\ \A i \in 1..Len(PREGEN_BINS) :
         Reads(PregenBin(i)) =>
           IF EtaToFull(PregenBin(i)) = Null
           THEN PlacesOf(items, PregenBin(i)) = {}
           ELSE \E k \in 1..Len(items) :
                  /\ PlacesOf(items, PregenBin(i)) = {k}
                  /\ items[k].eta100_iso = EtaToFull(PregenBin(i))
    /\ \A k \in 1..Len(items) :
         items[k].eta100_iso # Null /\ \E i \in 1..Len(PREGEN_BINS) : items[k].bin_id = Str(PregenBin(i))
    /\ Ascending(items)
FewPoints(binId) == Reads(binId) /\ Len(WindowOf(binId)) < 2
Undetermined(body) ==
  /\ body.slope_per_hr = Null
  /\ body.eta90_iso = Null
  /\ "eta100_iso" \in DOMAIN body => body.eta100_iso = Null
\* C17: with fewer than 2 points every forecast path reports a null slope
\* and null ETAs and does not throw.
C17_FewPoints ==
  /\ (Handled("/api/bins/:id/predict") /\ FewPoints(req'.payload.o.id.s)) =>
       (resp'.sent /\ resp'.status = 200 /\ Undetermined(resp'.body))
  /\ Handled("/api/pickups") =>
       /\ resp'.sent /\ resp'.status = 200
       /\ \A i \in 1..Len(PREGEN_BINS) :
            FewPoints(PregenBin(i)) =>
              \A k \in 1..Len(resp'.body.items) :
                 resp'.body.items[k].bin_id = Str(PregenBin(i)) => Undetermined(resp'.body.items[k])
C17_UndeterminedForecast == [][C17_FewPoints]_vars

(***************************************************************************)
(* Properties of the normalizers.                                          *)
(***************************************************************************)
Normalized(op) == req.op = op
NormalizerCalled == Normalized("normalizeSensors") \/ Normalized("normalizeClassification")

\* C21: the normalizers are total: for every payload, null and values of an unexpected
\* type included, normalizeSensors and normalizeClassification return a value (a sensors
\* object, an entry of kind "classification" whose sensors are an object) and never raise
C21_NormalizersTotal ==
  /\ NormalizerCalled => resp.result # Throw
  /\ Normalized("normalizeSensors") => IsObject(resp.result)
  /\ Normalized("normalizeClassification") =>
       resp.result.kind = Str("classification") /\ IsObject(resp.result.sensors)

ClassificationMade == Normalized("normalizeClassification") /\ resp.result # Throw
\* the text of a recyclable value, trimmed and lower-cased; the empty text when there is none
TokenOf(v) == IF v \in {U, Null} THEN "" ELSE ToLowerCase(Trim(ToStr(v)))

\* C22: the recyclable field of a normalized classification event is the input trimmed and
\* lower-cased when that is one of "yes", "no", "contaminated", and absent for every other
\* input, the empty string included
C22_RecyclableToken ==
  ClassificationMade =>
    LET token == TokenOf(Prop(req.arg, "recyclable")) IN
    resp.result.recyclable = IF token \in {"yes", "no", "contaminated"} THEN Str(token) ELSE U

\* C23: the override field of every event normalizeClassification produces is 0 or 1,
\* whatever override value the payload carries
C23_OverrideBit == ClassificationMade => resp.result.override \in {Num(0), Num(1)}

UpdateBodyOf(q) == OrElse(q.payload, ObjV(NoKeys))

\* C24: a POST /update whose body carries a label, recyclable or override key stores a
\* classification event, with override 0 when the body gives none, and any other body
\* stores a sensor event; {label: "plastic", recyclable: "yes", confidence: 0.92} is stored
\* with kind "classification", recyclable "yes" and override 0
C24_Update ==
  Handled("/update") =>
    LET b == UpdateBodyOf(req')
        e == lastResult'
    IN /\ resp'.status = 200
       /\ e = history'[Len(history')]
       /\ IF isClassification(b)
          THEN e.kind = Str("classification") /\ ("override" \notin DOMAIN b.o => e.override = Num(0))
          ELSE e.kind = Str("sensors")
       /\ req'.payload = PlasticBody =>
            e.kind = Str("classification") /\ e.recyclable = Str("yes") /\ e.override = Num(0)
C24_UpdateStoresByKind == [][C24_Update]_vars

\* the characters the coercion is to keep: digits, signs, the decimal point, the exponent marker
NumberChars == "0123456789+-.eE"
RECURSIVE Keeping(_, _)
Keeping(s, keep) ==
  IF s = "" THEN ""
  ELSE (IF \E i \in 1..Len(keep) : Char(keep, i) = Char(s, 1) THEN Char(s, 1) ELSE "")
       \o Keeping(SubSeq(s, 2, Len(s)), keep)
\* the finite number in a text from which everything but NumberChars is stripped, null when
\* nothing is left or what is left is no finite number
ParsedNumber(text) ==
  LET kept == Keeping(text, NumberChars) IN
  IF kept # "" /\ NumberIsFinite(NumberOf(kept)) THEN NumberOf(kept) ELSE Null

\* C25: numOrNull returns a finite number unchanged, for a string the finite number parsed
\* after stripping every character other than digits, sign, decimal point and exponent
\* marker, and null for every other input (a string holding no number, the empty string, a
\* non-finite value): its result is always null or a finite number
C25_NumOrNull ==
  Normalized("numOrNull") =>
    /\ resp.result = Null \/ NumberIsFinite(resp.result)
    /\ NumberIsFinite(req.arg) => resp.result = req.arg
    /\ req.arg.ty = "string" => resp.result = ParsedNumber(ToStr(req.arg))
    /\ ~NumberIsFinite(req.arg) /\ req.arg.ty # "string" => resp.result = Null

HoldsNumber(v) == isFiniteNum(numOrNull(v))
\* the first of ultrasonic, distance, dist of c that holds a finite number, undefined when none does
FirstReading(c) ==
  IF HoldsNumber(Prop(c, "ultrasonic")) THEN numOrNull(Prop(c, "ultrasonic"))
  ELSE IF HoldsNumber(Prop(c, "distance")) THEN numOrNull(Prop(c, "distance"))
  ELSE IF HoldsNumber(Prop(c, "dist")) THEN numOrNull(Prop(c, "dist"))
  ELSE U
SensorsMade == Normalized("normalizeSensors") /\ resp.result # Throw

\* C26: in a resolved compartment object the distance reading is the first of ultrasonic,
\* distance, dist that holds a finite number; a key that is present without a finite number
\* does not stop a later key from supplying the reading
C26_FirstFiniteReading ==
  SensorsMade /\ IsObject(Prop(req.arg, "recycle")) =>
    Prop(Prop(resp.result, "recycle"), "ultrasonic") = FirstReading(Prop(req.arg, "recycle"))

\* the value the alias chain of a compartment resolves to
AliasOf(s, aliases) == FirstTruthy([i \in 1..Len(aliases) |-> Prop(s, aliases[i])])
Resolves(s, aliases) == Truthy(AliasOf(s, aliases)) /\ IsObject(AliasOf(s, aliases))
RecycleChain == <<"recycle", "recyclable", "blue", "comp1">>
GeneralChain == <<"general", "non-recyclable", "trash", "black", "comp2", "nonrecycle">>
ReadingsOf(c) ==
  ObjV(Keyed("ultrasonic", FirstReading(c))
       @@ FieldIf(HoldsNumber(Prop(c, "weight")), "weight", numOrNull(Prop(c, "weight"))))
HasFlatReading(s) == FirstReading(s) # U \/ HoldsNumber(Prop(s, "weight"))

\* every reading of the output compartment c is a reading the object src holds
FromCompartment(c, src) ==
  \A k \in DOMAIN c.o :
     \E key \in {"ultrasonic", "distance", "dist", "weight"} : c.o[k] = numOrNull(Prop(src, key))

\* C27: the flat top-level ultrasonic/distance/dist and weight readings become the recycle
\* compartment exactly when neither compartment alias resolves to a nested object and at
\* least one flat reading is a finite number; a compartment whose alias resolves is present
\* in the output, even without a reading, and the flat readings are then ignored
C27_FlatFallback ==
  SensorsMade =>
    LET s == IF req.arg = U THEN ObjV(NoKeys) ELSE req.arg
        r == Resolves(s, RecycleChain)
        g == Resolves(s, GeneralChain)
        made == resp.result.o
    IN /\ "general" \in DOMAIN made <=> g
       /\ "recycle" \in DOMAIN made <=> r \/ (~g /\ HasFlatReading(s))
       /\ ~r /\ ~g /\ HasFlatReading(s) => made.recycle = ReadingsOf(s)
       /\ r => FromCompartment(made.recycle, AliasOf(s, RecycleChain))
       /\ g => FromCompartment(made.general, AliasOf(s, GeneralChain))

(***************************************************************************)
(* Properties of the queries.                                              *)
(***************************************************************************)
\* the limit of a query: the requested value clamped to 1..200, 20 when none can be parsed
RequestedLimit(q) == IF parseInt(q) = NaN THEN 20 ELSE clamp(parseInt(q).v, 1, 200)
\* the positions of the classification-bearing entries of the buffer, oldest first
BearingPlaces(h) == {i \in 1..Len(h) : isClassificationEntry(h[i])}
\* items are the entries at the n greatest places of ps, greatest first
NewestFirst(items, h, ps, n) ==
  /\ Len(items) = Min(n, Cardinality(ps))
  /\ \A k \in 1..Len(items) :
       \E i \in ps : items[k] = h[i] /\ Cardinality({j \in ps : j > i}) = k - 1

\* C28: the classification history query returns the most recent limit classification-bearing
\* entries of the buffer, newest first, limit being the requested value clamped to 1..200 and
\* 20 when none or an unparsable one is given; no sensor-only entry is returned
C28_Classifications ==
  Handled("/history/classifications") =>
    /\ NewestFirst(resp'.body.items, history, BearingPlaces(history),
                   RequestedLimit(Prop(req'.payload, "limit")))
    /\ \A k \in 1..Len(resp'.body.items) : resp'.body.items[k].kind # Str("sensors")
C28_ClassificationQuery == [][C28_Classifications]_vars

\* the clamped hours of a history request, NaN when the query is no number
WindowOfRequest(q) == ClampHours(Prop(q.payload, "hours"), 1, 24 * 30, 72)
\* the stored points of a bin that are not older than `hours` hours at time t
StoredSince(cache, binId, t, hours) ==
  IF hours = NaN THEN <<>>
  ELSE SelectSeq(CachedHistory(cache, binId), LAMBDA d : d.timestamp.iso >= t - hours.v)
PointsOf(series) == [i \in 1..Len(series) |-> [timestamp |-> series[i].timeISO, percent_full |-> series[i].percent_full]]
\* the read finds no stored points, or points that start too late for its window
TriggersRegeneration(id, w) ==
  IF w = NaN THEN CachedHistory(BIN_HISTORY, id) = <<>>
  ELSE Generates(build, now, BIN_HISTORY, id, w.v)

\* C29: query(bin_id, hours) returns the points stored for that bin whose timestamp is at
\* least now - hours, and no others; a read that does not regenerate the demo data leaves
\* the stored series unchanged
C29_Window ==
  Handled("/api/bins/:id/history") =>
    LET id == req'.payload.o.id.s
        w == WindowOfRequest(req')
    IN /\ PointsOf(resp'.body.series) = StoredSince(BIN_HISTORY', id, now, w)
       /\ ~TriggersRegeneration(id, w) => UNCHANGED BIN_HISTORY
       /\ UNCHANGED <<binSeries, history, log>>
C29_WindowQuery == [][C29_Window]_vars
\* a read answered from the stored points, some of which are older than its window
C29_Witness ==
  /\ Answered("/api/bins/:id/history")
  /\ Len(resp.body.series) > 0
  /\ Len(resp.body.series) < Len(CachedHistory(BIN_HISTORY, req.payload.o.id.s))

(***************************************************************************)
(* Properties of the slope estimate.                                       *)
(***************************************************************************)
Estimated == req.op = "predict" /\ req.length >= 2
\* |x - k| <= 1/100
Near(x, k) == x # Null /\ ~QLess(Ratio(1, 100), QSub(x, Num(k))) /\ ~QLess(Ratio(1, 100), QSub(Num(k), x))

\* C30 as stated: the moving-average slope (window 5, last average minus the one before) is
\* within a small tolerance of k for every series of at least 2 points that rises by k per
\* sample, and 0 for every level series
C30_SlopeOfRamp == Estimated => Near(resp.result.slope_per_hr, req.step)

\* C30, amended: the same for every series of at least 6 points, so that both windows hold 5
\* readings; a level series of at least 2 points has slope 0
C30_SlopeOfLongRamp ==
  Estimated =>
    /\ req.length >= windowSize + 1 => Near(resp.result.slope_per_hr, req.step)
    /\ req.step = 0 => resp.result.slope_per_hr = Num(0)
C30_Witness == Estimated /\ req.length >= windowSize + 1 /\ req.step = 3 /\ resp.result.slope_per_hr = Num(3)

(***************************************************************************)
(* Properties of the stepwise specifications.                              *)
(***************************************************************************)
\* this step broadcasts a pi:update to every client
Broadcasts == Len(out') = Len(out) + 1 /\ out'[Len(out')].to = "all"
\* the call in progress has appended its entry and has not broadcast it yet
Storing == pc.at \in {"shift", "emit"}
\* C31: append, eviction and broadcast form one visible unit: when the pi:update
\* of an entry is broadcast, the entry is lastResult and the last entry of the
\* history and the history is within capacity; and between the append and the
\* broadcast nothing but the call acts: no request or socket event is taken and
\* no step of the replay runs.
C31_AtBroadcast ==
  Broadcasts =>
    LET entry == out'[Len(out')].data IN
    /\ out'[Len(out')].event = "pi:update"
    /\ lastResult = entry
    /\ history # <<>> /\ history[Len(history)] = entry
    /\ Len(history) <= MAX_HISTORY
    /\ lastResult' = lastResult /\ history' = history
C31_Alone ==
  Storing =>
    /\ nreq' = nreq /\ req' = req /\ replay' = replay
    /\ lastResult' = lastResult /\ binSeries' = binSeries /\ log' = log
    /\ pc'.at \in {"emit", "log"}
C31_BroadcastUnit == [][C31_AtBroadcast /\ C31_Alone]_vars
\* an entry has been broadcast after the oldest entry was evicted for it, while the
\* replay is under way
C31_Witness ==
  /\ pc.at = "log" /\ out # <<>>
  /\ nreq = MAX_HISTORY + 1 /\ Len(history) = MAX_HISTORY
  /\ replay.pos > 0 /\ ~ReplayDone

(***************************************************************************)
(* Properties of the CSV export.                                           *)
(***************************************************************************)
\* the records of a CSV text: fields are separated by commas and records by line
\* ends, a field in quotes runs to its closing quote and a doubled quote in it is a
\* quote.  A place is outside quotes when an even number of quotes precedes it.
QuotesUpTo(text, i) == Cardinality({j \in 1..i : Char(text, j) = "\""})
BreaksAt(text, c) == {i \in 1..Len(text) : Char(text, i) = c /\ QuotesUpTo(text, i) % 2 = 0}
\* the places bs in ascending order
InOrder(bs) == [k \in 1..Cardinality(bs) |-> CHOOSE p \in bs : Cardinality({q \in bs : q < p}) = k - 1]
\* the pieces of the text between the breaks bs
PiecesAt(text, bs) ==
  [k \in 1..(Len(bs) + 1) |->
     SubSeq(text, IF k = 1 THEN 1 ELSE bs[k - 1] + 1, IF k = Len(bs) + 1 THEN Len(text) ELSE bs[k] - 1)]
SplitAt(text, c) == PiecesAt(text, InOrder(BreaksAt(text, c)))
RECURSIVE UnDouble(_)
UnDouble(s) ==
  IF s = "" THEN ""
  ELSE IF Len(s) >= 2 /\ Char(s, 1) = "\"" /\ Char(s, 2) = "\"" THEN "\"" \o UnDouble(SubSeq(s, 3, Len(s)))
  ELSE Char(s, 1) \o UnDouble(SubSeq(s, 2, Len(s)))
Unquote(f) ==
  IF Len(f) >= 2 /\ Char(f, 1) = "\"" /\ Char(f, Len(f)) = "\"" THEN UnDouble(SubSeq(f, 2, Len(f) - 1))
  ELSE f
FieldsAt(fields) == [k \in 1..Len(fields) |-> Unquote(fields[k])]
RecordsAt(lines) == [k \in 1..Len(lines) |-> FieldsAt(SplitAt(lines[k], ","))]
ParseCsv(text) == RecordsAt(SplitAt(text, "\n"))

\* a record written with every field in quotes and the quotes in it doubled
QuotedRecord(rec) == Join([i \in 1..Len(rec) |-> "\"" \o DoubleQuotes(rec[i]) \o "\""], ",")
\* how a reading is shown: its text, and nothing for a reading that is not there
Shown(v) == IF v \in {U, Null} THEN "" ELSE ToStr(v)
\* the readings entry e recorded
RecordedOf(e, compartment, reading) == Prop(Prop(OrElse(Get(e, "sensors"), ObjV(NoKeys)), compartment), reading)
WeightsOf(e) ==
  {w \in {RecordedOf(e, "recycle", "weight"), RecordedOf(e, "general", "weight"), Get(e, "weight")} :
     w \notin {U, Null}}

\* the export has a data row for each entry of the buffer, under the header; each row
\* has the 13 fields of the header, is written with every field quoted and quotes
\* doubled, and shows the ultrasonic readings of the entry in columns 11 and 12
CsvRowsFor(recs) ==
  /\ Len(recs) = Len(history) + 1
  /\ recs[1] = csvHeaders
  /\ \A i \in 1..Len(history) :
       /\ Len(recs[i + 1]) = 13
       /\ recs[i + 1][11] = Shown(RecordedOf(history[i], "recycle", "ultrasonic"))
       /\ recs[i + 1][12] = Shown(RecordedOf(history[i], "general", "ultrasonic"))
\* the weight column shows a weight the entry recorded, and is empty only for an
\* entry that recorded none
CsvWeightsFor(recs) ==
  \A i \in 1..Len(history) :
    IF WeightsOf(history[i]) = {} THEN recs[i + 1][13] = ""
    ELSE \E w \in WeightsOf(history[i]) : recs[i + 1][13] = ToStr(w)
\* the text is the header and the records, each written quoted
CsvQuoted(text, recs) ==
  text = Join(<<Join(csvHeaders, ",")>> \o [i \in 1..(Len(recs) - 1) |-> QuotedRecord(recs[i + 1])], "\n")

Exported == Answered("/data.csv") /\ history # <<>>
\* the export without its weight column is as described
C32_RowsAndReadings ==
  Exported => \E recs \in {ParseCsv(resp.body)} : CsvRowsFor(recs) /\ CsvQuoted(resp.body, recs)
\* C32: every data row of the CSV export has exactly the 13 fields of the header
\* in the fixed order, each quoted with embedded quotes doubled, and for every
\* history entry the recycle_ultrasonic, general_ultrasonic and weight columns
\* hold the readings the entry recorded, empty only where the entry has no such
\* value.
C32_CsvExport ==
  Exported =>
    \E recs \in {ParseCsv(resp.body)} :
      CsvRowsFor(recs) /\ CsvQuoted(resp.body, recs) /\ CsvWeightsFor(recs)

(***************************************************************************)
(* Properties of the replay, line by line.                                 *)
(***************************************************************************)
\* this step is a turn of the loop of loadLog
TakesLine == replay'.pos = replay.pos + 1
\* C33: the replay at start-up leaves the external log unchanged: no turn of
\* the loop appends a record, so the log holds the same records after the replay
\* as before.
C33_ReplayKeepsLog == [][TakesLine => log' = log]_vars

\* C34: the replay terminates: the loop takes each line the log held at
\* start-up exactly once and no other, so it has taken at most that many lines at
\* any time and exactly that many when loadLog completes.
C34_ReplayTerminates ==
  /\ replay.pos <= replay.atOpen
  /\ ReplayDone => replay.pos = replay.atOpen

\* the points of the records among the lines that belong to bin id
RecordPoints(lines, id) ==
  LET Kept(l) == IsReplayed(l) /\ l.id = id
      kept == SelectSeq(lines, Kept)
  IN [i \in 1..Len(kept) |-> PointOf(kept[i])]
\* the points of the readings of bin id that arrived, in the order of their arrival
LivePoints(h, id) ==
  LET Kept(e) == Get(e, "kind") = Str("sensors") /\ Get(e, "bin_id") = id
                 /\ NumberIsFinite(getDistanceFromSensors(Get(e, "sensors")))
      kept == SelectSeq(h, Kept)
  IN [i \in 1..Len(kept) |->
        [t |-> DateGetTime(kept[i].timestamp), distance_cm |-> getDistanceFromSensors(kept[i].sensors)]]
ReplayBins == {Str("BIN-001")}
\* C35: replay and live ingestion do not interleave observably: a reading that
\* arrives during the replay is placed after all replayed points of its bin, so
\* the series after the replay is the replayed history followed by the live
\* readings.
C35_ReplayThenLive ==
  ReplayDone =>
    \A id \in ReplayBins :
      SeriesOf(binSeries, id) = RecordPoints(SubSeq(log, 1, replay.atOpen), id) \o LivePoints(history, id)
\* the same for the replays in which the stream has read the lines the log held at
\* start-up and no line written since
C35_WithoutReread ==
  (ReplayDone /\ replay.rpos = replay.atOpen) =>
    \A id \in ReplayBins :
      SeriesOf(binSeries, id) = RecordPoints(SubSeq(log, 1, replay.atOpen), id) \o LivePoints(history, id)

(***************************************************************************)
(* Properties of lastResult.                                               *)
(***************************************************************************)
\* C36: between handlers, lastResult is null exactly when the history buffer is
\* empty, and otherwise it is the last entry of the buffer; so a client that
\* connects is sent the entry stored last among those not acknowledged, and
\* nothing when there is none.
C36_LastIsTail ==
  pc = Idle =>
    /\ lastResult = Null <=> history = <<>>
    /\ history # <<>> => lastResult = history[Len(history)]
    /\ req.op = "connection" =>
         out = IF history = <<>> THEN <<>>
               ELSE <<Emit("pi:update", "socket", history[Len(history)])>>
\* the only entry of the buffer has been acknowledged: the buffer is empty and
\* lastResult is null again
C36_Witness ==
  /\ AckSucceeded
  /\ resp.body.removed \in IdsAt(Now0)
  /\ history = <<>>
  /\ lastResult = Null

(***************************************************************************)
(* Properties of the trend of the pickup route.                            *)
(***************************************************************************)
TrendOf(body) == <<body.slope_per_hr, body.eta90_iso, body.eta100_iso>>
\* C37: the pickup route computes its trend as the predict route does: for
\* every history, an empty one and one of a single point included, it yields the
\* same slope_per_hr, eta90 and eta100.
C37_SameTrend == req.op = "trend" => TrendOf(resp.pickup) = TrendOf(resp.predict)
\* the same for the histories of two points and more whose average is below 90
C37_SameTrendBelow ==
  (req.op = "trend" /\ req.length >= 2 /\ resp.predict.eta90_iso # Null) =>
    TrendOf(resp.pickup) = TrendOf(resp.predict)
\* the same slope for the histories of two points and more
C37_SameSlope ==
  (req.op = "trend" /\ req.length >= 2) => resp.pickup.slope_per_hr = resp.predict.slope_per_hr

(***************************************************************************)
(* Properties of the window of getOrGenerateHistory over time.             *)
(***************************************************************************)
\* the series covers the window of `hours` hours that ends at time t: hourly points
\* from about t - hours up to the current hour
CoversWindow(series, t, hours) ==
  /\ series # <<>>
  /\ series[1].timeISO.iso <= t - hours + 1
  /\ series[Len(series)].timeISO.iso >= t - 1
  /\ \A i \in 1..(Len(series) - 1) : series[i + 1].timeISO.iso = series[i].timeISO.iso + 1
\* this step answered the history route for a window that is a number of hours
HistoryRead == Handled("/api/bins/:id/history") /\ WindowOfRequest(req') # NaN
\* C38: getOrGenerateHistory(binId, hours) returns a series that covers the
\* requested window at any time it is called, however long after the cache was
\* filled: hourly points from about now - hours up to the current hour.
C38_Covers == HistoryRead => CoversWindow(resp'.body.series, now, WindowOfRequest(req').v)
C38_CoversWindowAlways == [][C38_Covers]_vars
\* the same for the calls that generate the history they return
C38_CoversWhenGenerated ==
  [][(HistoryRead /\ TriggersRegeneration(req'.payload.o.id.s, WindowOfRequest(req')))
       => CoversWindow(resp'.body.series, now, WindowOfRequest(req').v)]_vars

====
